---- MODULE Spec2Model ----
(***************************************************************************)
(* A model of the limit order book of core/orderbook.py and of the L3      *)
(* emission helper of simulation/order_flow.py.                            *)
(*                                                                         *)
(* The book is one record variable whose fields are the fields of the      *)
(* Orderbook dataclass.  A Python dict is a function whose DOMAIN is the   *)
(* set of keys; a deque is a sequence (head = index 1); a heapq list is    *)
(* kept as the ascending sequence of its contents, so heap[0] is Head and  *)
(* heappop is Tail.  Every method is an operator from the book (and its    *)
(* arguments) to a record [book, ..., raised]; every action applies one    *)
(* method and records the call in `call`.  A method's result is handed to  *)
(* the code that follows the call as an operator argument.                 *)
(*                                                                         *)
(* `msgs` holds the L3 messages of the last call, `stream` the messages of *)
(* a session in the order of their emission, `live` the live_orders set of *)
(* every agent.                                                            *)
(***************************************************************************)
EXTENDS Integers, Sequences, FiniteSets, TLC

VARIABLES book, next_id, call, t, msgs, live, stream, gen

vars == <<book, next_id, call, t, msgs, live, stream, gen>>

\* ---------------------------------------------------------------- bounds
MaxTick == 3
MaxQty == 2
MaxOrders == 3
NumAgents == 2
MaxSessionOrders == 3
SeedLevels == 1
SeedOrdersPerLevel == 1
MaxHalfSpread == 1

\* ------------------------------------------------------- program constants
\* Optional[int] = None: the absent price_tick
NoTick == 0
\* core.config.DEBUG
debug == FALSE
\* owner_agent = None
NoAgent == 0
\* min_tick = max(1, price_to_tick(tick_size))
MinTick == 1
\* the offsets of the ids of replenishing orders
ReplBidOffset == 10000000
ReplAskOffset == 20000000

Ticks == 1..MaxTick
Qtys == 1..MaxQty
Sides == {"BID", "ASK"}
\* the agents of a session, in the order of the all_agents list
Agents == 1..NumAgents

\* ------------------------------------------------------------ dict helpers
EmptyDict == [k \in {} |-> 0]

DictSet(d, k, v) == [x \in DOMAIN d \cup {k} |-> IF x = k THEN v ELSE d[x]]

DictPop(d, k) == [x \in DOMAIN d \ {k} |-> d[x]]

DictGet(d, k, default) == IF k \in DOMAIN d THEN d[k] ELSE default

Min2(a, b) == IF a <= b THEN a ELSE b

Max2(a, b) == IF a >= b THEN a ELSE b

\* ------------------------------------------------------------ value types
Order(id, side, type, quantity, price_tick) ==
    [id |-> id, side |-> side, type |-> type, quantity |-> quantity,
     price_tick |-> price_tick]

\* mutant: the trade is recorded one tick away from the maker's level
TradeOffLevel(maker_id, price_tick, quantity) ==
    [maker_id |-> maker_id, price_tick |-> price_tick + 1, quantity |-> quantity]

Trade(maker_id, price_tick, quantity) ==
    [maker_id |-> maker_id, price_tick |-> price_tick, quantity |-> quantity]

\* Order.__post_init__ with validate=True (ids and quantities are integers here)
Valid(o) ==
    /\ o.id >= 0
    /\ o.quantity > 0
    /\ IF o.type = "LIMIT" THEN o.price_tick # NoTick /\ o.price_tick > 0
       ELSE o.price_tick = NoTick

\* ------------------------------------------------------------------ heapq
RECURSIVE InsertSorted(_, _)
InsertSorted(h, x) ==
    IF h = <<>> THEN <<x>>
    ELSE IF x <= Head(h) THEN <<x>> \o h
    ELSE <<Head(h)>> \o InsertSorted(Tail(h), x)

\* mutant: list.append for heapq.heappush, the minimum is no longer first
heappush_append(h, x) == Append(h, x)

heappush(h, x) == InsertSorted(h, x)

\* mutant: list.pop() for heapq.heappop, the last entry is removed
heappop_last(h) == SubSeq(h, 1, Len(h) - 1)

heappop(h) == Tail(h)

\* --------------------------------------------------------------- the book
EmptyBook ==
    [bids |-> EmptyDict, asks |-> EmptyDict,
     bid_sizes |-> EmptyDict, ask_sizes |-> EmptyDict,
     bid_heap |-> <<>>, ask_heap |-> <<>>,
     order_index |-> EmptyDict]

HeapOf(b, side) == IF side = "BID" THEN b.bid_heap ELSE b.ask_heap

LevelsOf(b, side) == IF side = "BID" THEN b.bids ELSE b.asks

SizesOf(b, side) == IF side = "BID" THEN b.bid_sizes ELSE b.ask_sizes

SignOf(side) == IF side = "BID" THEN 0 - 1 ELSE 1

WithSide(b, side, levels, sizes, heap, index) ==
    IF side = "BID"
    THEN [b EXCEPT !.bids = levels, !.bid_sizes = sizes, !.bid_heap = heap,
                   !.order_index = index]
    ELSE [b EXCEPT !.asks = levels, !.ask_sizes = sizes, !.ask_heap = heap,
                   !.order_index = index]

\* `if not q`: the level is absent or its deque is empty
StaleTop(heap, levels, sign) ==
    DictGet(levels, sign * Head(heap), <<>>) = <<>>

\* mutant: `if` for `while`, at most one stale top is popped
CleanTopOnce(heap, levels, sign) ==
    IF heap = <<>> THEN heap
    ELSE IF StaleTop(heap, levels, sign) THEN heappop(heap) ELSE heap

RECURSIVE CleanTopLoop(_, _, _)
CleanTopLoop(heap, levels, sign) ==
    IF heap = <<>> THEN heap
    ELSE IF StaleTop(heap, levels, sign)
         THEN CleanTopLoop(heappop(heap), levels, sign)
         ELSE heap

\* _clean_top(side): the side's heap after the stale tops are popped
clean_top(b, side) == CleanTopLoop(HeapOf(b, side), LevelsOf(b, side), SignOf(side))

\* best_bid() / best_ask(): the book with the heap cleaned, and the result:
\* <<>> for None, <<tick, size>> otherwise
BestOnHeap(b, side, heap) ==
    [book |-> IF side = "BID" THEN [b EXCEPT !.bid_heap = heap]
              ELSE [b EXCEPT !.ask_heap = heap],
     ret |-> IF heap = <<>> THEN <<>>
             ELSE <<SignOf(side) * Head(heap),
                    DictGet(SizesOf(b, side), SignOf(side) * Head(heap), 0)>>]

best_of(b, side) == BestOnHeap(b, side, clean_top(b, side))

best_bid(b) == best_of(b, "BID")

best_ask(b) == best_of(b, "ASK")

\* _assert_invariants(): nothing unless debug; in debug it cleans both heaps
\* through best_bid/best_ask and fails on a crossed book
AssertNotCrossed(best_bid_ret, r2) ==
    [book |-> r2.book,
     raised |-> best_bid_ret # <<>> /\ r2.ret # <<>> /\ ~(best_bid_ret[1] < r2.ret[1])]

AssertAfterBestBid(r1) == AssertNotCrossed(r1.ret, best_ask(r1.book))

assert_invariants(b) ==
    IF ~debug THEN [book |-> b, raised |-> FALSE]
    ELSE AssertAfterBestBid(best_bid(b))

\* -------------------------------------------------------------- add_limit
\* mutant: the order put at the front of the level FIFO (appendleft)
RestOnSideAppendLeft(b, order, price_tick) ==
    LET side == order.side
        fresh == price_tick \notin DOMAIN LevelsOf(b, side)
        levels0 == IF fresh THEN DictSet(LevelsOf(b, side), price_tick, <<>>)
                   ELSE LevelsOf(b, side)
        sizes0 == IF fresh THEN DictSet(SizesOf(b, side), price_tick, 0)
                  ELSE SizesOf(b, side)
        heap0 == IF fresh THEN heappush(HeapOf(b, side), SignOf(side) * price_tick)
                 ELSE HeapOf(b, side)
    IN  WithSide(b, side,
                 [levels0 EXCEPT ![price_tick] = <<order>> \o @],
                 [sizes0 EXCEPT ![price_tick] = @ + order.quantity],
                 heap0,
                 DictSet(b.order_index, order.id, <<side, price_tick>>))

\* mutant: the order rests without an entry in order_index
RestOnSideUnindexed(b, order, price_tick) ==
    LET side == order.side
        fresh == price_tick \notin DOMAIN LevelsOf(b, side)
        levels0 == IF fresh THEN DictSet(LevelsOf(b, side), price_tick, <<>>)
                   ELSE LevelsOf(b, side)
        sizes0 == IF fresh THEN DictSet(SizesOf(b, side), price_tick, 0)
                  ELSE SizesOf(b, side)
        heap0 == IF fresh THEN heappush(HeapOf(b, side), SignOf(side) * price_tick)
                 ELSE HeapOf(b, side)
    IN  WithSide(b, side,
                 [levels0 EXCEPT ![price_tick] = Append(@, order)],
                 [sizes0 EXCEPT ![price_tick] = @ + order.quantity],
                 heap0,
                 b.order_index)

\* lines 103-116: append to the level FIFO, creating the level (and pushing
\* its tick on the heap) when the tick is not a key of the level mapping
RestOnSide(b, order, price_tick) ==
    LET side == order.side
        fresh == price_tick \notin DOMAIN LevelsOf(b, side)
        levels0 == IF fresh THEN DictSet(LevelsOf(b, side), price_tick, <<>>)
                   ELSE LevelsOf(b, side)
        sizes0 == IF fresh THEN DictSet(SizesOf(b, side), price_tick, 0)
                  ELSE SizesOf(b, side)
        heap0 == IF fresh THEN heappush(HeapOf(b, side), SignOf(side) * price_tick)
                 ELSE HeapOf(b, side)
    IN  WithSide(b, side,
                 [levels0 EXCEPT ![price_tick] = Append(@, order)],
                 [sizes0 EXCEPT ![price_tick] = @ + order.quantity],
                 heap0,
                 DictSet(b.order_index, order.id, <<side, price_tick>>))

\* mutant: the order is appended before the two checks are made
add_limit_rest_first(b, order) ==
    IF order.type # "LIMIT" \/ order.price_tick = NoTick
    THEN [book |-> RestOnSide(b, order, order.price_tick), raised |-> TRUE]
    ELSE assert_invariants(RestOnSide(b, order, order.price_tick))

\* add_limit(order): the two type checks come first and raise ValueError
add_limit(b, order) ==
    IF order.type # "LIMIT" THEN [book |-> b, raised |-> TRUE]
    ELSE IF order.price_tick = NoTick THEN [book |-> b, raised |-> TRUE]
    ELSE assert_invariants(RestOnSide(b, order, order.price_tick))

\* ---------------------------------------------------- _match_against_book
\* mutant: the limit test off by one (>= and <=), so a LIMIT never trades at
\* its own tick
LimitReachedOffByOne(incoming_side, best_tick, limit_tick) ==
    /\ limit_tick # NoTick
    /\ \/ incoming_side = "BID" /\ best_tick >= limit_tick
       \/ incoming_side = "ASK" /\ best_tick <= limit_tick

\* lines 153-157: the LIMIT aggressor stops at the first level beyond its limit
LimitReached(incoming_side, best_tick, limit_tick) ==
    /\ limit_tick # NoTick
    /\ \/ incoming_side = "BID" /\ best_tick > limit_tick
       \/ incoming_side = "ASK" /\ best_tick < limit_tick

\* mutant: the min() forgotten, the whole remaining quantity is traded
TradeQtyNoMin(remaining_qty, top_order) == remaining_qty

\* mutant: the maker's whole quantity is traded whatever remains to fill
TradeQtyWholeMaker(remaining_qty, top_order) == top_order.quantity

\* line 162
TradeQty(remaining_qty, top_order) == Min2(remaining_qty, top_order.quantity)

\* mutant: the index entry of a filled maker is never dropped
IndexAfterTradeKept(index, top_order, left) == index

\* lines 170-172: a maker filled to 0 leaves the global index
IndexAfterTrade(index, top_order, left) ==
    IF left = 0 THEN DictPop(index, top_order.id) ELSE index

\* lines 160-172: the inner loop over one level's FIFO.  m is the matching
\* state [levels, sizes, heap, index, trades, remaining] of the resting side
RECURSIVE MatchQueue(_, _)
MatchQueue(m, best_tick) ==
    LET queue == m.levels[best_tick] IN
    IF queue = <<>> \/ ~(m.remaining > 0) THEN m
    ELSE LET top_order == Head(queue)
             trade_qty == TradeQty(m.remaining, top_order)
             left == top_order.quantity - trade_qty
         IN  MatchQueue(
               [m EXCEPT
                  !.trades = Append(@, Trade(top_order.id, best_tick, trade_qty)),
                  !.remaining = @ - trade_qty,
                  !.sizes = [@ EXCEPT ![best_tick] = @ - trade_qty],
                  !.levels = [@ EXCEPT ![best_tick] =
                                 IF left = 0 THEN Tail(queue)
                                 ELSE <<[top_order EXCEPT !.quantity = left]>>
                                      \o Tail(queue)],
                  !.index = IndexAfterTrade(@, top_order, left)],
               best_tick)

\* mutant: the two deletions dedented out of `if not queue`, so a level is
\* deleted after every pass over its FIFO
DropEmptyLevelAlways(m, best_tick) ==
    [m EXCEPT !.levels = DictPop(@, best_tick),
              !.sizes = DictPop(@, best_tick)]

\* lines 174-176: an emptied level loses its level entry and its size entry
DropEmptyLevel(m, best_tick) ==
    IF m.levels[best_tick] = <<>>
    THEN [m EXCEPT !.levels = DictPop(@, best_tick),
                   !.sizes = DictPop(@, best_tick)]
    ELSE m

\* mutant: the incoming order matched against its own side
OppositeIsOwn(side) == side

Opposite(side) == IF side = "BID" THEN "ASK" ELSE "BID"

\* lines 147-176: the outer loop.  MatchLoop is the loop test and line 148
\* (_clean_top of the resting side), MatchLevel the rest of the body
RECURSIVE MatchLoop(_, _, _)
RECURSIVE MatchLevel(_, _, _)
MatchLevel(mc, incoming_side, limit_tick) ==
    IF mc.heap = <<>> THEN mc
    ELSE IF LimitReached(incoming_side,
                         SignOf(Opposite(incoming_side)) * Head(mc.heap), limit_tick)
    THEN mc
    ELSE MatchLoop(
           DropEmptyLevel(
             MatchQueue(mc, SignOf(Opposite(incoming_side)) * Head(mc.heap)),
             SignOf(Opposite(incoming_side)) * Head(mc.heap)),
           incoming_side, limit_tick)

MatchLoop(m, incoming_side, limit_tick) ==
    IF ~(m.remaining > 0) THEN m
    ELSE MatchLevel(
           [m EXCEPT !.heap = CleanTopLoop(m.heap, m.levels,
                                           SignOf(Opposite(incoming_side)))],
           incoming_side, limit_tick)

\* lines 178-179
MatchReturn(m, a) ==
    [book |-> a.book, trades |-> m.trades, remaining |-> m.remaining,
     raised |-> a.raised]

MatchResult(b, book_side, m) ==
    MatchReturn(m, assert_invariants(
                     WithSide(b, book_side, m.levels, m.sizes, m.heap, m.index)))

\* _match_against_book(incoming_side, remaining_qty, limit_tick)
\*   -> [book, trades, remaining, raised]
match_against_book(b, incoming_side, remaining_qty, limit_tick) ==
    MatchResult(b, Opposite(incoming_side),
                MatchLoop([levels |-> LevelsOf(b, Opposite(incoming_side)),
                           sizes |-> SizesOf(b, Opposite(incoming_side)),
                           heap |-> HeapOf(b, Opposite(incoming_side)),
                           index |-> b.order_index,
                           trades |-> <<>>,
                           remaining |-> remaining_qty],
                          incoming_side, limit_tick))

\* line 187: matchtrade drops the remaining quantity
TradesOnly(r) == [book |-> r.book, trades |-> r.trades, raised |-> r.raised]

\* matchtrade(order) -> [book, trades, raised]
matchtrade(b, order) ==
    IF order.type # "MARKET" THEN [book |-> b, trades |-> <<>>, raised |-> TRUE]
    ELSE TradesOnly(match_against_book(b, order.side, order.quantity, NoTick))

\* mutant: the residual is not written back, the order rests at its
\* submitted quantity
RestingOrderUnreduced(order, remaining_qty) == order

\* line 205: the residual is written into the caller's Order before it rests
RestingOrder(order, remaining_qty) == [order EXCEPT !.quantity = remaining_qty]

\* add_order(order) -> [book, trades, raised, order]: `order` is the caller's
\* Order object after the call (line 205 writes the residual into it only when
\* the residual is > 0); `trades` are lost to the caller when the call raises
\* line 206-207: the residual rests through add_limit
AfterRest(rest, trades, a) ==
    [book |-> a.book, trades |-> IF a.raised THEN <<>> ELSE trades,
     raised |-> a.raised, order |-> rest]

\* lines 204-207, on the result r of the matching
AfterMatch(order, r) ==
    IF r.raised THEN [book |-> r.book, trades |-> <<>>, raised |-> TRUE, order |-> order]
    ELSE IF r.remaining > 0
    THEN AfterRest(RestingOrder(order, r.remaining), r.trades,
                   add_limit(r.book, RestingOrder(order, r.remaining)))
    ELSE [book |-> r.book, trades |-> r.trades, raised |-> FALSE, order |-> order]

\* line 208
AfterMatchTrade(order, r) ==
    [book |-> r.book, trades |-> r.trades, raised |-> r.raised, order |-> order]

add_order(b, order) ==
    IF order.type = "LIMIT"
    THEN AfterMatch(order, match_against_book(b, order.side, order.quantity,
                                              order.price_tick))
    ELSE AfterMatchTrade(order, matchtrade(b, order))

\* ---------------------------------------------------------------- cancels
\* mutant: the newest order of the level taken (pop for popleft)
PopHeadFromRight(b, side, price_tick, levels, sizes1, queue) ==
    IF Len(queue) = 1
    THEN WithSide(b, side, DictPop(levels, price_tick), DictPop(sizes1, price_tick),
                  HeapOf(b, side), DictPop(b.order_index, Head(queue).id))
    ELSE WithSide(b, side,
                  DictSet(levels, price_tick, SubSeq(queue, 1, Len(queue) - 1)),
                  sizes1, HeapOf(b, side),
                  DictPop(b.order_index, queue[Len(queue)].id))

\* mutant: a cancel that empties the level also pops the top of the heap
PopHeadPopsHeap(b, side, price_tick, levels, sizes1, queue) ==
    IF Tail(queue) = <<>>
    THEN WithSide(b, side, DictPop(levels, price_tick), DictPop(sizes1, price_tick),
                  heappop(HeapOf(b, side)), DictPop(b.order_index, Head(queue).id))
    ELSE WithSide(b, side, DictSet(levels, price_tick, Tail(queue)), sizes1,
                  HeapOf(b, side), DictPop(b.order_index, Head(queue).id))

\* cancel_at_price(side, price_tick) -> [book, ret]: ret is <<>> for None,
\* <<order>> for the removed order
\* lines 217-222, on the non-empty queue of the level
PopHead(b, side, price_tick, levels, sizes1, queue) ==
    IF Tail(queue) = <<>>
    THEN WithSide(b, side, DictPop(levels, price_tick), DictPop(sizes1, price_tick),
                  HeapOf(b, side), DictPop(b.order_index, Head(queue).id))
    ELSE WithSide(b, side, DictSet(levels, price_tick, Tail(queue)), sizes1,
                  HeapOf(b, side), DictPop(b.order_index, Head(queue).id))

\* mutant: the size entry written before the test of the queue, so a cancel
\* that finds nothing leaves a size entry behind
cancel_at_price_sizes_first(b, side, price_tick) ==
    IF DictGet(LevelsOf(b, side), price_tick, <<>>) = <<>>
    THEN [book |-> WithSide(b, side, LevelsOf(b, side),
                            DictSet(SizesOf(b, side), price_tick,
                                    DictGet(SizesOf(b, side), price_tick, 0)),
                            HeapOf(b, side), b.order_index),
          ret |-> <<>>]
    ELSE [book |-> assert_invariants(
                     PopHead(b, side, price_tick, LevelsOf(b, side),
                             DictSet(SizesOf(b, side), price_tick,
                                     Max2(0, DictGet(SizesOf(b, side), price_tick, 0)
                                             - Head(LevelsOf(b, side)[price_tick]).quantity)),
                             LevelsOf(b, side)[price_tick])).book,
          ret |-> <<Head(LevelsOf(b, side)[price_tick])>>]

cancel_at_price(b, side, price_tick) ==
    IF DictGet(LevelsOf(b, side), price_tick, <<>>) = <<>>
    THEN [book |-> b, ret |-> <<>>]
    ELSE [book |-> assert_invariants(
                     PopHead(b, side, price_tick, LevelsOf(b, side),
                             DictSet(SizesOf(b, side), price_tick,
                                     Max2(0, DictGet(SizesOf(b, side), price_tick, 0)
                                             - Head(LevelsOf(b, side)[price_tick]).quantity)),
                             LevelsOf(b, side)[price_tick])).book,
          ret |-> <<Head(LevelsOf(b, side)[price_tick])>>]

\* mutant: the rebuilt queue filled with appendleft, the survivors reversed
WithoutFirstAppendLeft(queue, order_id) ==
    LET kept == SelectSeq(queue, LAMBDA o : o.id # order_id)
    IN  [i \in 1..Len(kept) |-> kept[Len(kept) + 1 - i]]

\* lines 239-248: the queue rebuilt without the first order carrying order_id
RECURSIVE WithoutFirst(_, _)
WithoutFirst(queue, order_id) ==
    IF queue = <<>> THEN <<>>
    ELSE IF Head(queue).id = order_id THEN Tail(queue)
    ELSE <<Head(queue)>> \o WithoutFirst(Tail(queue), order_id)

RECURSIVE FirstWithId(_, _)
FirstWithId(queue, order_id) ==
    IF queue = <<>> THEN <<>>
    ELSE IF Head(queue).id = order_id THEN <<Head(queue)>>
    ELSE FirstWithId(Tail(queue), order_id)

\* mutant: the decrement of the level size forgotten
SizesAfterCancelNoDecrement(sizes, price_tick, new_queue, removed_qty) ==
    IF new_queue # <<>> THEN sizes ELSE DictPop(sizes, price_tick)

\* lines 250-257: the size map after the rebuild; the decrement runs after
\* the pop of an emptied level
SizesAfterCancel(sizes, price_tick, new_queue, removed_qty) ==
    LET sizes1 == IF new_queue # <<>> THEN sizes ELSE DictPop(sizes, price_tick)
    IN  IF removed_qty # 0
        THEN DictSet(sizes1, price_tick,
                     Max2(0, DictGet(sizes1, price_tick, 0) - removed_qty))
        ELSE sizes1

\* cancel_by_id(order_id) -> [book, ret]
\* mutant: `removed = True` left out of the scan, so the order is dropped
\* from the FIFO while the call reports false and the index keeps the id
AfterScanRemovedUnset(b, order_id, side, price_tick, hit, new_queue) ==
    [book |-> WithSide(b, side,
                       IF new_queue # <<>>
                       THEN DictSet(LevelsOf(b, side), price_tick, new_queue)
                       ELSE DictPop(LevelsOf(b, side), price_tick),
                       IF new_queue # <<>> THEN SizesOf(b, side)
                       ELSE DictPop(SizesOf(b, side), price_tick),
                       HeapOf(b, side), b.order_index),
     ret |-> FALSE]

\* lines 250-262, on the outcome of the scan: hit is <<>> or <<the order
\* removed>>, new_queue the rebuilt queue
AfterScan(b, order_id, side, price_tick, hit, new_queue) ==
    [book |-> assert_invariants(
                WithSide(b, side,
                         IF new_queue # <<>>
                         THEN DictSet(LevelsOf(b, side), price_tick, new_queue)
                         ELSE DictPop(LevelsOf(b, side), price_tick),
                         SizesAfterCancel(SizesOf(b, side), price_tick, new_queue,
                                          IF hit # <<>> THEN hit[1].quantity ELSE 0),
                         HeapOf(b, side),
                         IF hit # <<>> THEN DictPop(b.order_index, order_id)
                         ELSE b.order_index)).book,
     ret |-> hit # <<>>]

\* lines 231-248, on the index entry (side, price_tick) of the id
CancelLocated(b, order_id, side, price_tick) ==
    IF DictGet(LevelsOf(b, side), price_tick, <<>>) = <<>>
    THEN [book |-> [b EXCEPT !.order_index = DictPop(@, order_id)], ret |-> FALSE]
    ELSE AfterScan(b, order_id, side, price_tick,
                   FirstWithId(LevelsOf(b, side)[price_tick], order_id),
                   WithoutFirst(LevelsOf(b, side)[price_tick], order_id))

cancel_by_id(b, order_id) ==
    IF order_id \notin DOMAIN b.order_index THEN [book |-> b, ret |-> FALSE]
    ELSE CancelLocated(b, order_id, b.order_index[order_id][1],
                       b.order_index[order_id][2])

\* ------------------------------------------------------- order_flow.py
\* L3Execute for one trade (price, the float tick * tick_size, is left out)
L3Execute(timestamp, trade, aggressor_side) ==
    [msg_type |-> "EXECUTE", timestamp |-> timestamp, maker_id |-> trade.maker_id,
     price_tick |-> trade.price_tick, quantity |-> trade.quantity,
     aggressor_side |-> aggressor_side]

L3Add(timestamp, order_id, side, price_tick, quantity) ==
    [msg_type |-> "ADD", timestamp |-> timestamp, order_id |-> order_id,
     side |-> side, price_tick |-> price_tick, quantity |-> quantity]

\* line 43: the test that decides whether an Add is emitted, on the caller's
\* Order object as add_order left it
EmitsAdd(order) == order.type = "LIMIT" /\ order.quantity > 0

\* emit_order(book, order, t) -> [book, msgs, t, trades, order, raised],
\* the generator run to exhaustion
\* mutant: the trades walked from the last to the first
ExecutesReversed(trades, aggressor_side, t0) ==
    [i \in 1..Len(trades) |->
        L3Execute(t0 + i, trades[Len(trades) + 1 - i], aggressor_side)]

\* lines 32-41: one Execute per trade, in the order of the trades
Executes(trades, aggressor_side, t0) ==
    [i \in 1..Len(trades) |-> L3Execute(t0 + i, trades[i], aggressor_side)]

\* mutant: the counter advanced for the Add whether it is emitted or not
EmittedCountsAdd(original_price_tick, t0, r) ==
    IF r.raised
    THEN [book |-> r.book, msgs |-> <<>>, t |-> t0, trades |-> <<>>,
          order |-> r.order, raised |-> TRUE]
    ELSE [book |-> r.book,
          msgs |-> IF EmitsAdd(r.order)
                   THEN Append(Executes(r.trades, r.order.side, t0),
                               L3Add(t0 + Len(r.trades) + 1, r.order.id,
                                     r.order.side, original_price_tick,
                                     r.order.quantity))
                   ELSE Executes(r.trades, r.order.side, t0),
          t |-> t0 + Len(r.trades) + 1, trades |-> r.trades, order |-> r.order,
          raised |-> FALSE]

\* lines 32-52, on the result r of add_order
Emitted(original_price_tick, t0, r) ==
    IF r.raised
    THEN [book |-> r.book, msgs |-> <<>>, t |-> t0, trades |-> <<>>,
          order |-> r.order, raised |-> TRUE]
    ELSE IF EmitsAdd(r.order)
    THEN [book |-> r.book,
          msgs |-> Append(Executes(r.trades, r.order.side, t0),
                          L3Add(t0 + Len(r.trades) + 1, r.order.id, r.order.side,
                                original_price_tick, r.order.quantity)),
          t |-> t0 + Len(r.trades) + 1, trades |-> r.trades, order |-> r.order,
          raised |-> FALSE]
    ELSE [book |-> r.book, msgs |-> Executes(r.trades, r.order.side, t0),
          t |-> t0 + Len(r.trades), trades |-> r.trades,
          order |-> r.order, raised |-> FALSE]

emit_order(b, order, t0) == Emitted(order.price_tick, t0, add_order(b, order))

\* mutant: the pruning left out, live_orders keeps the ids that left the book
PruneDeadNone(live_orders, b) == live_orders

\* ------------------------------------------------------------- agents.py
\* BaseAgent._prune_dead: the ids of live_orders that are still in the index
PruneDead(live_orders, b) == live_orders \cap DOMAIN b.order_index

\* BaseAgent.on_order_placed / on_order_removed on the live_orders of `agent`
on_order_placed(lv, agent, order_id) == [lv EXCEPT ![agent] = @ \cup {order_id}]

\* mutant: the call of on_order_removed left out, the id stays in the
\* agent's live_orders
on_order_removed_forgotten(lv, agent, order_id) == lv

on_order_removed(lv, agent, order_id) == [lv EXCEPT ![agent] = @ \ {order_id}]

\* BaseAgent.pull_stale_orders: the ids the agent may return, those of its
\* pruned live_orders that rest further than max_distance_ticks from mid_tick
\* (each is then pulled or kept by a draw of the rng)
Dist(a, b) == IF a >= b THEN a - b ELSE b - a

StaleOrders(live_orders, b, mid_tick, max_distance_ticks) ==
    {oid \in PruneDead(live_orders, b) \cap DOMAIN b.order_index :
        Dist(b.order_index[oid][2], mid_tick) > max_distance_ticks}

\* ------------------------------------------- try_cancel_owned, purge
L3Cancel(timestamp, order_id, side, price_tick, cancelled_quantity) ==
    [msg_type |-> "CANCEL", timestamp |-> timestamp, order_id |-> order_id,
     side |-> side, price_tick |-> price_tick,
     cancelled_quantity |-> cancelled_quantity]

\* mutant: the quantity read off the head of the level's queue
QtyBeforeCancelHead(b, side, price_tick, order_id) ==
    IF DictGet(LevelsOf(b, side), price_tick, <<>>) = <<>>
    THEN 0
    ELSE Head(LevelsOf(b, side)[price_tick]).quantity

\* the quantity looked up before the cancel: that of the first order of the
\* level's queue with the id, 0 when there is none
QtyBeforeCancel(b, side, price_tick, order_id) ==
    IF FirstWithId(DictGet(LevelsOf(b, side), price_tick, <<>>), order_id) = <<>>
    THEN 0
    ELSE FirstWithId(LevelsOf(b, side)[price_tick], order_id)[1].quantity

\* the end of one owner-initiated cancel, on the result r of cancel_by_id:
\* st is [book, live, msgs, t]; a Cancel is emitted, and t advanced, only
\* when cancel_by_id returned true
CancelEmitted(st, agent, order_id, side, price_tick, qty, r) ==
    IF ~r.ret THEN [st EXCEPT !.book = r.book]
    ELSE [book |-> r.book,
          live |-> on_order_removed(st.live, agent, order_id),
          msgs |-> Append(st.msgs,
                          L3Cancel(st.t + 1, order_id, side, price_tick, qty)),
          t |-> st.t + 1]

\* the lookup of the id in order_index, then the cancel
CancelOwned(st, agent, order_id) ==
    IF order_id \notin DOMAIN st.book.order_index
    THEN [st EXCEPT !.live = on_order_removed(st.live, agent, order_id)]
    ELSE CancelEmitted(st, agent, order_id,
                       st.book.order_index[order_id][1],
                       st.book.order_index[order_id][2],
                       QtyBeforeCancel(st.book, st.book.order_index[order_id][1],
                                       st.book.order_index[order_id][2], order_id),
                       cancel_by_id(st.book, order_id))

\* try_cancel_owned once the rng has drawn `agent` among the agents with
\* live orders and pick_cancel has pruned its live_orders and drawn order_id
\* among them
try_cancel_owned(b, lv, agent, order_id, t0) ==
    CancelOwned([book |-> b,
                 live |-> [lv EXCEPT ![agent] = PruneDead(@, b)],
                 msgs |-> <<>>, t |-> t0],
                agent, order_id)

\* try_cancel_owned when pick_cancel finds no live order after pruning
try_cancel_none(b, lv, agent, t0) ==
    [book |-> b, live |-> [lv EXCEPT ![agent] = PruneDead(@, b)],
     msgs |-> <<>>, t |-> t0]

\* purge_stale_orders: the inner loop over the ids one agent pulled
RECURSIVE PurgeOrders(_, _, _)
PurgeOrders(st, agent, to_cancel) ==
    IF to_cancel = <<>> THEN st
    ELSE PurgeOrders(CancelOwned(st, agent, Head(to_cancel)), agent,
                     Tail(to_cancel))

\* purge_stale_orders: the loop over all_agents from `agent` on; pulls[a] is
\* the list pull_stale_orders returns for agent a, which pruned its
\* live_orders first
RECURSIVE PurgeAgents(_, _, _)
PurgeAgents(st, agent, pulls) ==
    IF agent > NumAgents THEN st
    ELSE PurgeAgents(
           PurgeOrders([st EXCEPT !.live[agent] = PruneDead(@, st.book)],
                       agent, pulls[agent]),
           agent + 1, pulls)

purge_stale_orders(b, lv, pulls, t0) ==
    PurgeAgents([book |-> b, live |-> lv, msgs |-> <<>>, t |-> t0], 1, pulls)

\* ----------------------------------------------------------- seed_book
\* one add_limit of seed_book and the on_order_placed of the agent the rng
\* chose; st is [book, live, next_id]
SeedPlace(st, side, price_tick, qty, owner) ==
    [book |-> add_limit(st.book,
                        Order(st.next_id, side, "LIMIT", qty, price_tick)).book,
     live |-> on_order_placed(st.live, owner, st.next_id),
     next_id |-> st.next_id + 1]

\* the two nested loops of seed_book from the k-th pair of orders on (level
\* k \div orders_per_level): a bid, then an ask; qs and owners are the draws
\* of the rng, in the order they are made
RECURSIVE SeedFrom(_, _, _, _, _, _)
SeedFrom(st, k, mid_tick, half_spread_ticks, qs, owners) ==
    IF k >= SeedLevels * SeedOrdersPerLevel THEN st
    ELSE SeedFrom(
           SeedPlace(
             SeedPlace(st, "BID",
                       Max2(MinTick, mid_tick - half_spread_ticks
                                       - (k \div SeedOrdersPerLevel)),
                       qs[2 * k + 1], owners[2 * k + 1]),
             "ASK", mid_tick + half_spread_ticks + (k \div SeedOrdersPerLevel),
             qs[2 * k + 2], owners[2 * k + 2]),
           k + 1, mid_tick, half_spread_ticks, qs, owners)

\* seed_book(book, ..., next_id, n_levels, orders_per_level, agents)
\*   -> [book, live, next_id]; no L3 message is produced
seed_book(b, lv, id, mid_tick, half_spread_ticks, qs, owners) ==
    SeedFrom([book |-> b, live |-> lv, next_id |-> id], 0, mid_tick,
             half_spread_ticks, qs, owners)

\* mutant: the test `repl.id in book.order_index` left out, the owner
\* registers the replenishing id whether it rests or not
ReplPlacedUnguarded(st, owner_agent, id, r) ==
    [book |-> r.book,
     live |-> IF owner_agent # NoAgent
              THEN on_order_placed(st.live, owner_agent, id) ELSE st.live,
     msgs |-> st.msgs \o r.msgs,
     t |-> r.t]

\* ------------------------------------------------------ replenish_book
\* after the emit_order of a replenishing order returned r: its messages
\* follow those already yielded, and the owner registers the id if it is in
\* the index
ReplPlaced(st, owner_agent, id, r) ==
    [book |-> r.book,
     live |-> IF owner_agent # NoAgent /\ id \in DOMAIN r.book.order_index
              THEN on_order_placed(st.live, owner_agent, id) ELSE st.live,
     msgs |-> st.msgs \o r.msgs,
     t |-> r.t]

\* one half of replenish_book, on the result `best` of best_bid() or
\* best_ask(); st is [book, live, msgs, t]
ReplenishSide(st, side, best, mid_tick, max_gap_ticks, price_tick, qty, id, owner) ==
    IF best.ret # <<>> /\ Dist(mid_tick, best.ret[1]) > max_gap_ticks
    THEN ReplPlaced(st, owner, id,
                    emit_order(best.book, Order(id, side, "LIMIT", qty, price_tick),
                               st.t))
    ELSE [st EXCEPT !.book = best.book]

ReplenishBid(st, mid_tick, max_gap_ticks, half_spread_ticks, qty, id, owner_agent) ==
    ReplenishSide(st, "BID", best_bid(st.book), mid_tick, max_gap_ticks,
                  Max2(MinTick, mid_tick - half_spread_ticks), qty,
                  id + ReplBidOffset, owner_agent)

ReplenishAsk(st, mid_tick, max_gap_ticks, half_spread_ticks, qty, id, owner_agent) ==
    ReplenishSide(st, "ASK", best_ask(st.book), mid_tick, max_gap_ticks,
                  mid_tick + half_spread_ticks, qty, id + ReplAskOffset,
                  owner_agent)

\* replenish_book(book, ..., next_id, min_tick, rng, t, validate, owner_agent)
\*   -> [book, live, msgs, t], the generator run to exhaustion; qty is
\* max(1, qty // 2) of the size the rng drew
replenish_book(b, lv, mid_tick, max_gap_ticks, half_spread_ticks, qty, id, t0, owner) ==
    ReplenishAsk(
      ReplenishBid([book |-> b, live |-> lv, msgs |-> <<>>, t |-> t0],
                   mid_tick, max_gap_ticks, half_spread_ticks, qty, id,
                   owner),
      mid_tick, max_gap_ticks, half_spread_ticks, qty, id, owner)

\* ------------------------------------------------------------ the machine
\* `call` records the last call: its name, the Order it was given (as
\* submitted), the caller's Order object after the call, the trades or the
\* value it returned, and whether it raised
Call(op, given, order, trades, ret, raised) ==
    [op |-> op, given |-> given, order |-> order, trades |-> trades,
     ret |-> ret, raised |-> raised]

\* no run of the stream generator
NoGen == [cfg |-> <<>>, seed |-> 0, runs |-> <<>>]

Init ==
    /\ gen = NoGen
    /\ book = EmptyBook
    /\ next_id = 1
    /\ call = Call("init", <<>>, <<>>, <<>>, <<>>, FALSE)
    /\ t = 0
    /\ msgs = <<>>
    /\ live = [a \in Agents |-> {}]
    /\ stream = <<>>

\* the orders a validating driver builds: LIMIT with a tick, MARKET without
LimitOrders(id) ==
    {Order(id, s, "LIMIT", q, p) : s \in Sides, q \in Qtys, p \in Ticks}

MarketOrders(id) ==
    {Order(id, s, "MARKET", q, NoTick) : s \in Sides, q \in Qtys}

\* what validate=False also lets through: a LIMIT without price_tick, a
\* MARKET with one
RawOrders(id) ==
    {Order(id, s, ty, q, p) : s \in Sides, ty \in {"LIMIT", "MARKET"},
                              q \in Qtys, p \in Ticks \cup {NoTick}}

\* a submission returned r: the book is r.book and the driver's id advances
Submitted(op, o, r, order, trades) ==
    /\ book' = r.book
    /\ next_id' = next_id + 1
    /\ call' = Call(op, o, order, trades, <<>>, r.raised)
    /\ UNCHANGED <<t, msgs, live, stream, gen>>

SubmittedOrder(o, r) == Submitted("add_order", o, r, r.order, r.trades)

SubmittedMarket(o, r) == Submitted("matchtrade", o, r, o, r.trades)

DoAddOrder(o) == SubmittedOrder(o, add_order(book, o))

DoAddLimit(o) == Submitted("add_limit", o, add_limit(book, o), o, <<>>)

DoMatchTrade(o) == SubmittedMarket(o, matchtrade(book, o))

\* a cancel or a query returned r
Returned(op, given, r) ==
    /\ book' = r.book
    /\ call' = Call(op, given, <<>>, <<>>, r.ret, FALSE)
    /\ UNCHANGED <<next_id, t, msgs, live, stream, gen>>

\* emit_order returned r
Streamed(o, r) ==
    /\ book' = r.book
    /\ next_id' = next_id + 1
    /\ call' = Call("emit_order", o, r.order, r.trades, <<>>, r.raised)
    /\ t' = r.t
    /\ msgs' = r.msgs
    /\ UNCHANGED <<live, stream, gen>>

AddOrder ==
    /\ next_id <= MaxOrders
    /\ \E o \in LimitOrders(next_id) \cup MarketOrders(next_id) :
          Valid(o) /\ DoAddOrder(o)

AddLimit ==
    /\ next_id <= MaxOrders
    /\ \E o \in LimitOrders(next_id) : Valid(o) /\ DoAddLimit(o)

AddOrderRaw ==
    /\ next_id <= MaxOrders
    /\ \E o \in RawOrders(next_id) : DoAddOrder(o)

AddLimitRaw ==
    /\ next_id <= MaxOrders
    /\ \E o \in RawOrders(next_id) : DoAddLimit(o)

MatchTradeRaw ==
    /\ next_id <= MaxOrders
    /\ \E o \in RawOrders(next_id) : DoMatchTrade(o)

CancelAtPrice ==
    \E side \in Sides, price_tick \in Ticks :
        Returned("cancel_at_price", <<side, price_tick>>,
                 cancel_at_price(book, side, price_tick))

CancelById ==
    \E order_id \in 1..MaxOrders :
        Returned("cancel_by_id", order_id, cancel_by_id(book, order_id))

BestBid == Returned("best_bid", <<>>, best_bid(book))

BestAsk == Returned("best_ask", <<>>, best_ask(book))

EmitOrder ==
    /\ next_id <= MaxOrders
    /\ \E o \in LimitOrders(next_id) \cup MarketOrders(next_id) :
          Valid(o) /\ Streamed(o, emit_order(book, o, t))

\* ------------------------------------------------------------ a session
\* the driver gives a submitted order that is in the index after the
\* submission to an agent (on_placed)
OwnIfIndexed(lv, owner, id, b) ==
    IF id \in DOMAIN b.order_index THEN on_order_placed(lv, owner, id) ELSE lv

\* seed_book returned st
Seeded(given, st) ==
    /\ book' = st.book
    /\ live' = st.live
    /\ next_id' = st.next_id
    /\ call' = Call("seed_book", given, <<>>, <<>>, <<>>, FALSE)
    /\ UNCHANGED <<t, msgs, stream, gen>>

\* pre-market: the book is seeded once, before anything else
SeedBook ==
    /\ call.op = "init"
    /\ \E mid_tick \in Ticks, half_spread_ticks \in 1..MaxHalfSpread,
          qs \in [1..(2 * SeedLevels * SeedOrdersPerLevel) -> Qtys],
          owners \in [1..(2 * SeedLevels * SeedOrdersPerLevel) -> Agents] :
          Seeded(<<mid_tick, half_spread_ticks>>,
                 seed_book(book, live, next_id, mid_tick, half_spread_ticks,
                           qs, owners))

\* emit_order returned r in a session: its messages go to the stream and the
\* counter t is the one it yielded last
SessionStreamed(op, o, owner, lv, before, r) ==
    /\ book' = r.book
    /\ next_id' = next_id + 1
    /\ call' = Call(op, o, r.order, r.trades, <<>>, r.raised)
    /\ t' = r.t
    /\ msgs' = before \o r.msgs
    /\ stream' = stream \o before \o r.msgs
    /\ UNCHANGED gen
    /\ live' = OwnIfIndexed(lv, owner, o.id, r.book)

\* one random or agent-generated order submitted through emit_order
SessionSubmit ==
    /\ call.op # "init"
    /\ next_id <= MaxSessionOrders
    /\ \E o \in LimitOrders(next_id) \cup MarketOrders(next_id), owner \in Agents :
          /\ Valid(o)
          /\ SessionStreamed("emit_order", o, owner, live, <<>>,
                             emit_order(book, o, t))

\* replenish_book returned st; the LIMIT order o is submitted next, with the
\* counter replenish_book yielded last
SubmitAfterReplenish(o, owner, st) ==
    SessionStreamed("replenish_book", o, owner, st.live, st.msgs,
                    emit_order(st.book, o, st.t))

\* a LIMIT order preceded by replenish_book, which is called with the id the
\* order is about to take
SessionReplenishSubmit ==
    /\ call.op # "init"
    /\ next_id <= MaxSessionOrders
    /\ \E o \in LimitOrders(next_id), owner \in Agents,
          owner_agent \in Agents \cup {NoAgent}, mid_tick \in Ticks,
          max_gap_ticks \in Ticks, half_spread_ticks \in 1..MaxHalfSpread,
          qty \in Qtys :
          /\ Valid(o)
          /\ SubmitAfterReplenish(o, owner,
                 replenish_book(book, live, mid_tick, max_gap_ticks,
                                half_spread_ticks, qty, next_id, t, owner_agent))

\* try_cancel_owned or purge_stale_orders returned st
SessionCancelled(op, given, st) ==
    /\ book' = st.book
    /\ live' = st.live
    /\ t' = st.t
    /\ msgs' = st.msgs
    /\ stream' = stream \o st.msgs
    /\ UNCHANGED gen
    /\ call' = Call(op, given, <<>>, <<>>, st.msgs, FALSE)
    /\ UNCHANGED next_id

\* try_cancel_owned: the rng draws an agent among those with live orders and
\* pick_cancel draws one of the ids its pruned live_orders hold
SessionTryCancel ==
    /\ call.op # "init"
    /\ IF \A a \in Agents : live[a] = {}
       THEN SessionCancelled("try_cancel_owned", <<>>,
                             [book |-> book, live |-> live, msgs |-> <<>>, t |-> t])
       ELSE \E agent \in {a \in Agents : live[a] # {}} :
               IF PruneDead(live[agent], book) = {}
               THEN SessionCancelled("try_cancel_owned", <<>>,
                                     try_cancel_none(book, live, agent, t))
               ELSE \E order_id \in PruneDead(live[agent], book) :
                       SessionCancelled("try_cancel_owned", <<>>,
                                        try_cancel_owned(book, live, agent,
                                                         order_id, t))

\* the lists without repetition of the elements of S
Orderings(S) ==
    {f \in [1..Cardinality(S) -> S] : \A i, j \in 1..Cardinality(S) :
                                         f[i] = f[j] => i = j}

\* what pull_stale_orders of one agent may return: some of its stale ids, in
\* the order its live_orders set is iterated
PullLists(live_orders, b, mid_tick, max_distance_ticks) ==
    UNION {Orderings(T) :
             T \in SUBSET StaleOrders(live_orders, b, mid_tick, max_distance_ticks)}

\* purge_stale_orders: the lists of agents do not overlap, so what an agent
\* may pull at its turn is what it may pull at the start of the sweep
SessionPurge ==
    /\ call.op # "init"
    /\ \E mid_tick \in Ticks, max_distance_ticks \in Ticks :
          \E pulls \in [Agents -> UNION {PullLists(live[a], book, mid_tick,
                                                   max_distance_ticks) : a \in Agents}] :
              /\ \A a \in Agents :
                    pulls[a] \in PullLists(live[a], book, mid_tick, max_distance_ticks)
              /\ SessionCancelled("purge_stale_orders", <<>>,
                                  purge_stale_orders(book, live, pulls, t))

\* the public API of the book, driven with validated orders
Next ==
    \/ AddOrder
    \/ AddLimit
    \/ CancelAtPrice
    \/ CancelById
    \/ BestBid
    \/ BestAsk

Spec == Init /\ [][Next]_vars

\* submissions through add_order only (no direct add_limit)
NextOrders ==
    \/ AddOrder
    \/ CancelAtPrice
    \/ CancelById
    \/ BestBid
    \/ BestAsk

SpecOrders == Init /\ [][NextOrders]_vars

\* the book driven with orders built with validate=False
NextRaw ==
    \/ AddOrderRaw
    \/ AddLimitRaw
    \/ MatchTradeRaw
    \/ CancelAtPrice
    \/ CancelById

SpecRaw == Init /\ [][NextRaw]_vars

\* submissions through emit_order, with cancels in between
NextEmit ==
    \/ EmitOrder
    \/ CancelAtPrice
    \/ CancelById

SpecEmit == Init /\ [][NextEmit]_vars

\* a session: seeding, then submissions, replenishments and owner-initiated
\* cancels in any order
NextSession ==
    \/ SeedBook
    \/ SessionSubmit
    \/ SessionReplenishSubmit
    \/ SessionTryCancel
    \/ SessionPurge

SpecSession == Init /\ [][NextSession]_vars

\* ------------------------------------------------- reference definitions
RECURSIVE SumQty(_)
SumQty(queue) ==
    IF queue = <<>> THEN 0 ELSE Head(queue).quantity + SumQty(Tail(queue))

\* the ticks at which at least one order rests
LiveTicks(b, side) == {p \in DOMAIN LevelsOf(b, side) : LevelsOf(b, side)[p] # <<>>}

MaxOf(S) == CHOOSE x \in S : \A y \in S : y <= x

MinOf(S) == CHOOSE x \in S : \A y \in S : x <= y

\* the best tick of a side, read off the level mapping
BestTick(b, side) ==
    IF side = "BID" THEN MaxOf(LiveTicks(b, side)) ELSE MinOf(LiveTicks(b, side))

RestsAt(b, id, side, price_tick) ==
    /\ price_tick \in DOMAIN LevelsOf(b, side)
    /\ \E i \in 1..Len(LevelsOf(b, side)[price_tick]) :
          LevelsOf(b, side)[price_tick][i].id = id

RestsSomewhere(b, id) ==
    \E side \in Sides : \E p \in DOMAIN LevelsOf(b, side) : RestsAt(b, id, side, p)

\* every subscript the methods take without a default is defined: a level
\* has a size entry (sizes[tick] -= ..., sizes[tick] += ... never KeyError)
SizesCoverLevels ==
    \A side \in Sides : DOMAIN LevelsOf(book, side) \subseteq DOMAIN SizesOf(book, side)

\* ------------------------------------------------------------------ claims
\* C1: starting from an empty book, after every add_order (validated orders,
\* unique ids), cancel_by_id and cancel_at_price, whenever both sides are
\* non-empty the best bid tick is strictly below the best ask tick, both as
\* best_bid()/best_ask() report them and as the level mappings hold them.
NoCrossedBook ==
    LET bb == best_bid(book).ret
        ba == best_ask(book).ret
    IN  /\ (bb # <<>> /\ ba # <<>>) => bb[1] < ba[1]
        /\ (LiveTicks(book, "BID") # {} /\ LiveTicks(book, "ASK") # {})
              => BestTick(book, "BID") < BestTick(book, "ASK")

\* an aggressive LIMIT traded, rested its residual, and both sides hold orders
NoCrossedBookWitness ==
    /\ call.op = "add_order"
    /\ call.trades # <<>>
    /\ call.order.id \in DOMAIN book.order_index
    /\ LiveTicks(book, "BID") # {}
    /\ LiveTicks(book, "ASK") # {}

\* C2: after every public operation, every tick of a side's level mapping
\* has a non-empty FIFO and a size entry equal to the sum of the quantities
\* of the orders in that FIFO.
LevelSizesMatchFifo ==
    \A side \in Sides : \A p \in DOMAIN LevelsOf(book, side) :
        /\ LevelsOf(book, side)[p] # <<>>
        /\ p \in DOMAIN SizesOf(book, side)
        /\ SizesOf(book, side)[p] = SumQty(LevelsOf(book, side)[p])

\* a cancel by id succeeded and left other orders at the level
LevelSizesMatchFifoWitness ==
    /\ call.op = "cancel_by_id"
    /\ call.ret = TRUE
    /\ \E side \in Sides : \E p \in DOMAIN LevelsOf(book, side) :
          /\ Len(LevelsOf(book, side)[p]) >= 2
          /\ \E i \in 1..Len(LevelsOf(book, side)[p]) :
                LevelsOf(book, side)[p][i].id > call.given

\* C3: after every public operation, every id of order_index maps to the
\* (side, tick) at which an order with that id rests with quantity > 0; so an
\* id whose order was filled or cancelled by an operation is gone from the
\* index when that operation returns.
IndexPointsToRestingOrder ==
    \A id \in DOMAIN book.order_index :
        LET side == book.order_index[id][1]
            p == book.order_index[id][2]
        IN  /\ p \in DOMAIN LevelsOf(book, side)
            /\ \E i \in 1..Len(LevelsOf(book, side)[p]) :
                  /\ LevelsOf(book, side)[p][i].id = id
                  /\ LevelsOf(book, side)[p][i].quantity > 0

\* a trade filled one maker (gone from the index) while another order is
\* still indexed
IndexPointsToRestingOrderWitness ==
    /\ call.op = "add_order"
    /\ call.trades # <<>>
    /\ call.trades[1].maker_id \notin DOMAIN book.order_index
    /\ DOMAIN book.order_index # {}

\* the resting orders of a side, highest priority first: best tick first,
\* insertion order within a tick
RECURSIVE PriorityFrom(_, _, _)
PriorityFrom(b, side, S) ==
    IF S = {} THEN <<>>
    ELSE LET p == IF side = "BID" THEN MaxOf(S) ELSE MinOf(S)
         IN LevelsOf(b, side)[p] \o PriorityFrom(b, side, S \ {p})

PriorityQueue(b, side) == PriorityFrom(b, side, LiveTicks(b, side))

RECURSIVE SumTrades(_)
SumTrades(trades) ==
    IF trades = <<>> THEN 0 ELSE Head(trades).quantity + SumTrades(Tail(trades))

TotalQty(b, side) == SumQty(PriorityQueue(b, side))

\* a tick the LIMIT aggressor `given` may trade at
WithinLimit(given, p) ==
    IF given.side = "BID" THEN p <= given.price_tick ELSE p >= given.price_tick

\* C4: the trades of one add_order run down the resting side in price-time
\* priority: the i-th trade is against the i-th order of the priority queue
\* of the state before the call, at that order's tick; every maker but the
\* last traded is exhausted, and a partly filled last maker is still the head
\* of its FIFO afterwards, with the rest of its quantity.
PriorityStep(b, given, trades, b2) ==
    LET book_side == Opposite(given.side)
        pq == PriorityQueue(b, book_side)
        n == Len(trades)
    IN  /\ n <= Len(pq)
        /\ \A i \in 1..n : /\ trades[i].maker_id = pq[i].id
                           /\ trades[i].price_tick = pq[i].price_tick
                           /\ trades[i].quantity <= pq[i].quantity
        /\ \A i \in 1..(n - 1) : trades[i].quantity = pq[i].quantity
        /\ (n > 0 /\ trades[n].quantity < pq[n].quantity)
              => /\ pq[n].price_tick \in DOMAIN LevelsOf(b2, book_side)
                 /\ Head(LevelsOf(b2, book_side)[pq[n].price_tick]) =
                       [pq[n] EXCEPT !.quantity = @ - trades[n].quantity]

PriceTimePriority ==
    [][call'.op = "add_order"
          => PriorityStep(book, call'.given, call'.trades, book')]_vars

\* one aggressor traded with two makers at two different ticks, the second
\* only in part
PriceTimePriorityWitness ==
    /\ call.op = "add_order"
    /\ Len(call.trades) = 2
    /\ call.trades[1].price_tick # call.trades[2].price_tick
    /\ call.trades[2].maker_id \in DOMAIN book.order_index

\* C5: add_order of a LIMIT trades only at opposite ticks at or inside its
\* limit, stops only when it is filled or no such liquidity is left, and then
\* rests exactly the residual (submitted quantity minus the traded sum) at
\* the tail of the FIFO at its own tick iff the residual is > 0; a LIMIT at
\* the best opposite tick trades at that tick only.
LimitStep(b, given, trades, b2) ==
    LET book_side == Opposite(given.side)
        residual == given.quantity - SumTrades(trades)
        before == DictGet(LevelsOf(b, given.side), given.price_tick, <<>>)
    IN  /\ \A i \in 1..Len(trades) : WithinLimit(given, trades[i].price_tick)
        /\ residual >= 0
        /\ residual > 0
              => /\ \A p \in LiveTicks(b2, book_side) : ~WithinLimit(given, p)
                 /\ given.id \in DOMAIN b2.order_index
                 /\ b2.order_index[given.id] = <<given.side, given.price_tick>>
                 /\ given.price_tick \in DOMAIN LevelsOf(b2, given.side)
                 /\ LevelsOf(b2, given.side)[given.price_tick] =
                       Append(before, [given EXCEPT !.quantity = residual])
        /\ residual = 0
              => /\ ~RestsSomewhere(b2, given.id)
                 /\ given.id \notin DOMAIN b2.order_index
        /\ (LiveTicks(b, book_side) # {}
              /\ given.price_tick = BestTick(b, book_side))
              => \A i \in 1..Len(trades) : trades[i].price_tick = given.price_tick

LimitMatchesThenRests ==
    [][(call'.op = "add_order" /\ call'.given.type = "LIMIT")
          => LimitStep(book, call'.given, call'.trades, book')]_vars

\* a LIMIT traded, rested a residual, and left worse-priced liquidity behind
LimitMatchesThenRestsWitness ==
    /\ call.op = "add_order"
    /\ call.given.type = "LIMIT"
    /\ call.trades # <<>>
    /\ call.order.quantity < call.given.quantity
    /\ RestsAt(book, call.given.id, call.given.side, call.given.price_tick)
    /\ LiveTicks(book, Opposite(call.given.side)) # {}

\* C6: for a MARKET order submitted with add_order the traded sum is
\* min(order quantity, total resting on the opposite side before the call),
\* and the order's id is in no FIFO and not in order_index afterwards.
MarketStep(b, given, trades, b2) ==
    /\ SumTrades(trades) = Min2(given.quantity, TotalQty(b, Opposite(given.side)))
    /\ ~RestsSomewhere(b2, given.id)
    /\ given.id \notin DOMAIN b2.order_index

MarketFillsMin ==
    [][(call'.op = "add_order" /\ call'.given.type = "MARKET")
          => MarketStep(book, call'.given, call'.trades, book')]_vars

\* a MARKET order larger than the opposite side: it traded all there was and
\* its remainder was dropped
MarketFillsMinWitness ==
    /\ call.op = "add_order"
    /\ call.given.type = "MARKET"
    /\ call.trades # <<>>
    /\ SumTrades(call.trades) < call.given.quantity
    /\ LiveTicks(book, call.given.side) # {}

\* C7: after every operation with validated orders no order with quantity
\* <= 0 sits in a FIFO and every size-map value is >= 0.
NoEmptyRestingOrder ==
    \A side \in Sides :
        /\ \A p \in DOMAIN LevelsOf(book, side) :
              \A i \in 1..Len(LevelsOf(book, side)[p]) :
                  LevelsOf(book, side)[p][i].quantity > 0
        /\ \A p \in DOMAIN SizesOf(book, side) : SizesOf(book, side)[p] >= 0

\* a maker was filled in part and still rests
NoEmptyRestingOrderWitness ==
    /\ call.op = "add_order"
    /\ Len(call.trades) = 1
    /\ call.trades[1].maker_id \in DOMAIN book.order_index

\* C8: in every reachable state best_bid() is (highest tick with a non-empty
\* bid FIFO, sum of the quantities resting there) and None exactly when no
\* bid rests; best_ask() the same with the lowest ask tick.
BestOfLevels(b, side) ==
    IF LiveTicks(b, side) = {} THEN <<>>
    ELSE <<BestTick(b, side), SumQty(LevelsOf(b, side)[BestTick(b, side)])>>

BestIsBestLevel ==
    /\ best_bid(book).ret = BestOfLevels(book, "BID")
    /\ best_ask(book).ret = BestOfLevels(book, "ASK")

\* the bid heap holds a repeated tick and its top is stale, and a bid rests
BestIsBestLevelWitness ==
    /\ LiveTicks(book, "BID") # {}
    /\ Len(book.bid_heap) >= 3
    /\ book.bid_heap[1] = book.bid_heap[2]
    /\ StaleTop(book.bid_heap, book.bids, 0 - 1)

\* C9: whenever add_order, add_limit or matchtrade raises, for any order
\* (orders built with validate=False included), the book is exactly as
\* before the call.
FailedCallLeavesBook ==
    [][call'.raised => book' = book]_vars

\* C10: for every order submitted through emit_order an Add is emitted iff
\* the order is a LIMIT whose residual rested on the book; the Add carries
\* the submitted price_tick and the residual resting for that id (submitted
\* quantity minus the sum of its Execute quantities).
AddMessages == {i \in 1..Len(msgs) : msgs[i].msg_type = "ADD"}

RECURSIVE ExecutedQty(_)
ExecutedQty(ms) ==
    IF ms = <<>> THEN 0
    ELSE (IF Head(ms).msg_type = "EXECUTE" THEN Head(ms).quantity ELSE 0)
         + ExecutedQty(Tail(ms))

AddIffRested ==
    call.op = "emit_order"
       => /\ (AddMessages # {})
               <=> (call.given.type = "LIMIT"
                      /\ RestsAt(book, call.given.id, call.given.side,
                                 call.given.price_tick))
          /\ \A i \in AddMessages :
                /\ msgs[i].order_id = call.given.id
                /\ msgs[i].price_tick = call.given.price_tick
                /\ msgs[i].quantity = call.given.quantity - ExecutedQty(msgs)

\* the FIFO and the size of a level as a reader sees them: an absent level
\* is empty and of size 0
QueueAt(b, side, p) == DictGet(LevelsOf(b, side), p, <<>>)

SizeAt(b, side, p) == DictGet(SizesOf(b, side), p, 0)

\* the levels of b and b2 agree everywhere but at (side, p)
SameLevelsBut(b, b2, side, p) ==
    \A s \in Sides : \A q \in Ticks :
        (s # side \/ q # p) =>
            /\ (q \in DOMAIN LevelsOf(b2, s)) = (q \in DOMAIN LevelsOf(b, s))
            /\ QueueAt(b2, s, q) = QueueAt(b, s, q)
            /\ SizeAt(b2, s, q) = SizeAt(b, s, q)

\* C15: a cancel_by_id that returns true removed exactly the order with that
\* id: the FIFO of its level is the old FIFO without that one order, the
\* others in their old relative order; the size of the level went down by
\* the quantity the order had; every other level of both sides, and its
\* size, is as before.
CancelByIdStep(b, order_id, b2) ==
    LET side == b.order_index[order_id][1]
        p == b.order_index[order_id][2]
        queue == QueueAt(b, side, p)
        gone == SelectSeq(queue, LAMBDA o : o.id = order_id)
    IN  /\ Len(gone) = 1
        /\ QueueAt(b2, side, p) = SelectSeq(queue, LAMBDA o : o.id # order_id)
        /\ Len(QueueAt(b2, side, p)) = Len(queue) - 1
        /\ SizeAt(b2, side, p) = SizeAt(b, side, p) - gone[1].quantity
        /\ SameLevelsBut(b, b2, side, p)

CancelByIdRemovesExactlyOne ==
    [][(call'.op = "cancel_by_id" /\ call'.ret = TRUE)
          => CancelByIdStep(book, call'.given, book')]_vars

\* the middle one of three orders at one tick was cancelled: the first and
\* the third are left, in that order
CancelByIdRemovesExactlyOneWitness ==
    /\ call.op = "cancel_by_id"
    /\ call.ret = TRUE
    /\ call.given = 2
    /\ \E side \in Sides : \E p \in DOMAIN LevelsOf(book, side) :
          /\ Len(LevelsOf(book, side)[p]) = 2
          /\ LevelsOf(book, side)[p][1].id = 1
          /\ LevelsOf(book, side)[p][2].id = 3
          /\ LevelsOf(book, side)[p][1].quantity # LevelsOf(book, side)[p][2].quantity

\* C16: cancel_by_id(id) returns true exactly when an order with that id
\* rests in the book at the call; when it returns false the book (levels,
\* sizes, heaps, index) is as before; after it returned true the id rests no
\* more, so a second cancel of the id returns false.
CancelByIdTrueIffResting ==
    [][call'.op = "cancel_by_id"
          => /\ (call'.ret = TRUE) = RestsSomewhere(book, call'.given)
             /\ (call'.ret = FALSE) => (book' = book)
             /\ (call'.ret = TRUE) => ~RestsSomewhere(book', call'.given)]_vars

\* a cancel of an id the driver had issued, which rests no more (filled,
\* cancelled or never rested), returned false while other orders rest
CancelByIdTrueIffRestingWitness ==
    /\ call.op = "cancel_by_id"
    /\ call.ret = FALSE
    /\ call.given < next_id
    /\ book.order_index # EmptyDict

\* C17: a cancel_at_price on a level that holds orders returns the head of
\* its FIFO; afterwards the FIFO is the old tail, in the old order, the size
\* of the level is lower by the quantity of the head, the id of the head is
\* out of order_index (and no other id is), the level is deleted exactly when
\* the tail is empty, and every other level is as before.
CancelAtPriceStep(b, side, p, ret, b2) ==
    LET queue == LevelsOf(b, side)[p]
    IN  /\ ret = <<Head(queue)>>
        /\ QueueAt(b2, side, p) = Tail(queue)
        /\ SizeAt(b2, side, p) = SizeAt(b, side, p) - Head(queue).quantity
        /\ b2.order_index = DictPop(b.order_index, Head(queue).id)
        /\ Head(queue).id \in DOMAIN b.order_index
        /\ \A i \in 1..Len(queue) : Head(queue).id <= queue[i].id
        /\ (p \notin DOMAIN LevelsOf(b2, side)) = (Tail(queue) = <<>>)
        /\ (p \notin DOMAIN SizesOf(b2, side)) = (Tail(queue) = <<>>)
        /\ SameLevelsBut(b, b2, side, p)

CancelAtPriceRemovesHead ==
    [][(/\ call'.op = "cancel_at_price"
        /\ QueueAt(book, call'.given[1], call'.given[2]) # <<>>)
          => CancelAtPriceStep(book, call'.given[1], call'.given[2],
                               call'.ret, book')]_vars

\* the head of a level of two was cancelled and the second order is left
CancelAtPriceRemovesHeadWitness ==
    /\ call.op = "cancel_at_price"
    /\ call.ret # <<>>
    /\ Len(QueueAt(book, call.given[1], call.given[2])) = 1
    /\ QueueAt(book, call.given[1], call.given[2])[1].id > call.ret[1].id
    /\ QueueAt(book, call.given[1], call.given[2])[1].quantity
          # call.ret[1].quantity

\* C18: a cancel_at_price on a tick that has no level, or an empty one,
\* returns None and leaves the book as it was: levels, sizes, heaps and
\* order_index of both sides.
CancelAtPriceOnEmptyLevel ==
    [][(/\ call'.op = "cancel_at_price"
        /\ QueueAt(book, call'.given[1], call'.given[2]) = <<>>)
          => (call'.ret = <<>> /\ book' = book)]_vars

\* a cancel found no level at its tick while orders rest elsewhere and the
\* heap of its side still carries the tick of a level that is gone
CancelAtPriceOnEmptyLevelWitness ==
    /\ call.op = "cancel_at_price"
    /\ call.ret = <<>>
    /\ book.order_index # EmptyDict
    /\ HeapOf(book, call.given[1]) # <<>>
    /\ SignOf(call.given[1]) * Head(HeapOf(book, call.given[1]))
          \notin DOMAIN LevelsOf(book, call.given[1])

OtherSide(side) == IF side = "BID" THEN "ASK" ELSE "BID"

\* C19: an add_order of a MARKET order while no order rests on the other
\* side returns no trade and leaves the levels, the sizes and order_index of
\* both sides as they were, whatever rests on the side of the order itself.
MarketOnEmptySide ==
    [][(/\ call'.op = "add_order"
        /\ call'.given.type = "MARKET"
        /\ LiveTicks(book, OtherSide(call'.given.side)) = {})
          => /\ call'.trades = <<>>
             /\ ~call'.raised
             /\ book'.bids = book.bids
             /\ book'.asks = book.asks
             /\ book'.bid_sizes = book.bid_sizes
             /\ book'.ask_sizes = book.ask_sizes
             /\ book'.order_index = book.order_index]_vars

\* a MARKET order found the other side empty while two orders rest on its
\* own side
MarketOnEmptySideWitness ==
    /\ call.op = "add_order"
    /\ call.given.type = "MARKET"
    /\ call.trades = <<>>
    /\ LiveTicks(book, OtherSide(call.given.side)) = {}
    /\ Len(PriorityQueue(book, call.given.side)) = 2

\* the top of the side's heap, when there is one, is the tick of a level
\* that holds orders
HeapTopIsLive(b, side) ==
    HeapOf(b, side) # <<>>
        => QueueAt(b, side, SignOf(side) * Head(HeapOf(b, side))) # <<>>

\* C20 as claimed: after each of add_limit, add_order, cancel_at_price and
\* cancel_by_id (invariant checking disabled), the top of every non-empty
\* heap is the tick of a level that exists and holds orders.
HeapTopLiveAfterEveryOp ==
    call.op \in {"add_limit", "add_order", "cancel_at_price", "cancel_by_id"}
        => \A side \in Sides : HeapTopIsLive(book, side)

\* C20 as amended: after every public operation each tick of a side's level
\* mapping is in that side's heap and its FIFO holds orders; the top of a
\* non-empty bid (ask) heap is such a tick right after best_bid()
\* (best_ask()) returned, while after the other operations it may be the
\* tick of a level that a cancel or a fill removed.
HeapTopLiveAfterBest ==
    /\ \A side \in Sides : \A p \in DOMAIN LevelsOf(book, side) :
          /\ LevelsOf(book, side)[p] # <<>>
          /\ \E i \in 1..Len(HeapOf(book, side)) :
                HeapOf(book, side)[i] = SignOf(side) * p
    /\ call.op = "best_bid" => HeapTopIsLive(book, "BID")
    /\ call.op = "best_ask" => HeapTopIsLive(book, "ASK")

\* best_bid() left a bid heap whose top holds orders, below an entry for a
\* level that is gone, while the top of the ask heap is stale
HeapTopLiveAfterBestWitness ==
    /\ call.op = "best_bid"
    /\ Len(book.bid_heap) = 2
    /\ Cardinality(LiveTicks(book, "BID")) = 1
    /\ book.ask_heap # <<>>
    /\ ~HeapTopIsLive(book, "ASK")

\* C14: the messages of one emit_order call are one Execute per trade of the
\* matching loop, in the order of the trades, which is the price-time
\* priority of the makers in the book before the call; the i-th Execute
\* carries the maker_id, price_tick and quantity of the i-th trade and the
\* side of the submitted order; at most one more message follows, and it is
\* the Add of the submitted order.
EmitStep(b, given, trades, ms, b2) ==
    /\ PriorityStep(b, given, trades, b2)
    /\ Len(ms) \in {Len(trades), Len(trades) + 1}
    /\ \A i \in 1..Len(trades) :
          /\ ms[i].msg_type = "EXECUTE"
          /\ ms[i].maker_id = trades[i].maker_id
          /\ ms[i].price_tick = trades[i].price_tick
          /\ ms[i].quantity = trades[i].quantity
          /\ ms[i].aggressor_side = given.side
    /\ Len(ms) = Len(trades) + 1
          => /\ ms[Len(ms)].msg_type = "ADD"
             /\ ms[Len(ms)].order_id = given.id

ExecutesThenAdd ==
    [][(call'.op = "emit_order" /\ ~call'.raised)
          => EmitStep(book, call'.given, call'.trades, msgs', book')]_vars

\* one emit_order traded with two makers at two ticks and then emitted an Add
ExecutesThenAddWitness ==
    /\ call.op = "emit_order"
    /\ Len(call.trades) = 2
    /\ call.trades[1].price_tick # call.trades[2].price_tick
    /\ Len(msgs) = 3
    /\ msgs[1].maker_id # msgs[2].maker_id
    /\ msgs[3].msg_type = "ADD"

\* the i-th message of the stream concerns the order id, as the given kind
IsAdd(i, id) == stream[i].msg_type = "ADD" /\ stream[i].order_id = id

IsCancel(i, id) == stream[i].msg_type = "CANCEL" /\ stream[i].order_id = id

IsExecute(i, id) == stream[i].msg_type = "EXECUTE" /\ stream[i].maker_id = id

\* C11: in the stream of a session (seed_book, then emit_order and
\* replenish_book submissions, try_cancel_owned and purge_stale_orders
\* cancels) every Execute comes after an Add whose order_id is its maker_id,
\* with no Cancel of that id between the two.
ExecuteFollowsAdd ==
    \A j \in 1..Len(stream) :
        stream[j].msg_type = "EXECUTE" =>
            \E i \in 1..(j - 1) :
                /\ IsAdd(i, stream[j].maker_id)
                /\ \A k \in (i + 1)..(j - 1) : ~IsCancel(k, stream[j].maker_id)

\* the quantity executed against id by the messages before the j-th
RECURSIVE ExecutedBefore(_, _)
ExecutedBefore(j, id) ==
    IF j <= 1 THEN 0
    ELSE ExecutedBefore(j - 1, id)
           + (IF IsExecute(j - 1, id) THEN stream[j - 1].quantity ELSE 0)

\* C12: in the stream of a session every Cancel comes after an Add of its
\* order_id; before it there is no other Cancel of the id, and the Executes
\* against the id add up to less than the quantity of the Add (the order was
\* not fully filled); so no id is cancelled twice.
CancelFollowsAdd ==
    \A j \in 1..Len(stream) :
        stream[j].msg_type = "CANCEL" =>
            /\ \E i \in 1..(j - 1) :
                  /\ IsAdd(i, stream[j].order_id)
                  /\ ExecutedBefore(j, stream[j].order_id) < stream[i].quantity
            /\ \A k \in 1..(j - 1) : ~IsCancel(k, stream[j].order_id)

\* C13: with t threaded through the calls of a session from 0, the i-th
\* message of the stream carries timestamp i, so the timestamps are 1, 2, ...
\* with no gap and no repeat, and the counter is the number of messages
\* emitted so far: a call that emits nothing leaves it as it was.
TimestampsDense ==
    /\ t = Len(stream)
    /\ \A i \in 1..Len(stream) : stream[i].timestamp = i

\* a try_cancel_owned that emitted nothing came after an Execute, an Add and
\* a Cancel
TimestampsDenseWitness ==
    /\ call.op = "try_cancel_owned"
    /\ msgs = <<>>
    /\ \E i, j, k \in 1..Len(stream) :
          /\ stream[i].msg_type = "EXECUTE"
          /\ stream[j].msg_type = "ADD"
          /\ stream[k].msg_type = "CANCEL"

\* C21: in every state the size map of a side has exactly the tick keys of
\* its level map: once the last order at a tick is gone, by a fill, a
\* cancel_at_price or a cancel_by_id, neither map has an entry for the tick.
SizeKeysAreLevelKeys ==
    \A side \in Sides : DOMAIN SizesOf(book, side) = DOMAIN LevelsOf(book, side)

\* ------------------------------------------------------------ clear_book
\* the iterations one `while levels.get(tick)` loop is followed for
MaxClearSteps == 4

\* while book.bids.get(tick): book.cancel_at_price(side, tick); returned is
\* FALSE when the loop is still running after n iterations
RECURSIVE ClearLevel(_, _, _, _)
ClearLevel(b, side, tick, n) ==
    IF DictGet(LevelsOf(b, side), tick, <<>>) = <<>>
    THEN [book |-> b, returned |-> TRUE]
    ELSE IF n = 0 THEN [book |-> b, returned |-> FALSE]
    ELSE ClearLevel(cancel_at_price(b, side, tick).book, side, tick, n - 1)

\* for tick in list(levels.keys()): keys is that list, taken before the loop
RECURSIVE ClearSide(_, _, _, _)
ClearSide(st, side, keys, i) ==
    IF i > Len(keys) \/ ~st.returned THEN st
    ELSE ClearSide(ClearLevel(st.book, side, keys[i], MaxClearSteps),
                   side, keys, i + 1)

\* mutant: only the bid side is cleared
clear_book_bids_only(b, bid_keys, ask_keys) ==
    ClearSide([book |-> b, returned |-> TRUE], "BID", bid_keys, 1)

\* clear_book(book): the bids, then the asks
clear_book(b, bid_keys, ask_keys) ==
    ClearSide(ClearSide([book |-> b, returned |-> TRUE], "BID", bid_keys, 1),
              "ASK", ask_keys, 1)

\* clear_book came to r; the call remembers the operation it followed
Cleared(before, r) ==
    /\ book' = r.book
    /\ call' = Call("clear_book", before, <<>>, <<>>, r.returned, FALSE)
    /\ UNCHANGED <<next_id, t, msgs, live, stream, gen>>

\* the keys of a dict are listed in insertion order, which the model does not
\* keep: every order is tried
ClearBook ==
    \E bid_keys \in Orderings(DOMAIN book.bids),
       ask_keys \in Orderings(DOMAIN book.asks) :
        Cleared(call.op, clear_book(book, bid_keys, ask_keys))

\* seeding, submissions and end-of-day clearing
NextClear ==
    \/ SeedBook
    \/ AddOrder
    \/ ClearBook

SpecClear == Init /\ [][NextClear]_vars

SubmittedIdsIncrease ==
    \A i, j \in 1..Len(stream) :
        (i < j /\ stream[i].msg_type = "ADD" /\ stream[j].msg_type = "ADD")
            => stream[i].order_id < stream[j].order_id

\* the order id rests in b on `side` at price_tick with quantity qty
HeldAt(b, id, side, price_tick, qty) ==
    /\ price_tick \in DOMAIN LevelsOf(b, side)
    /\ \E i \in 1..Len(LevelsOf(b, side)[price_tick]) :
          /\ LevelsOf(b, side)[price_tick][i].id = id
          /\ LevelsOf(b, side)[price_tick][i].quantity = qty

\* C25: every Cancel that try_cancel_owned or purge_stale_orders emits
\* carries a positive cancelled_quantity, which is the quantity the order
\* held just before the call removed it, and the side and price_tick at which
\* the order rested; after the call the order rests nowhere.
CancelCarriesHeldQuantity ==
    [][call'.op \in {"try_cancel_owned", "purge_stale_orders"} =>
         \A i \in 1..Len(msgs') :
             msgs'[i].msg_type = "CANCEL" =>
                 /\ msgs'[i].cancelled_quantity > 0
                 /\ HeldAt(book, msgs'[i].order_id, msgs'[i].side,
                           msgs'[i].price_tick, msgs'[i].cancelled_quantity)
                 /\ ~RestsSomewhere(book', msgs'[i].order_id)]_vars

\* a Cancel of an order that was partly filled before: an Execute against it
\* is in the stream, and the Cancel carries what was left
CancelCarriesHeldQuantityWitness ==
    /\ call.op \in {"try_cancel_owned", "purge_stale_orders"}
    /\ msgs # <<>>
    /\ msgs[1].msg_type = "CANCEL"
    /\ msgs[1].cancelled_quantity = 1
    /\ \E j \in 1..Len(stream) : IsExecute(j, msgs[1].order_id)

\* C26: add_limit raises, with the book left as it was, when it is given a
\* MARKET order or an order without price_tick; matchtrade raises, with the
\* book left as it was, when it is given a LIMIT order; add_limit given a
\* valid LIMIT order does not raise.
WrongTypeRejected ==
    [][/\ call'.op = "add_limit" =>
            /\ (call'.given.type = "MARKET" \/ call'.given.price_tick = NoTick)
                   => (call'.raised /\ book' = book)
            /\ (call'.given.type = "LIMIT" /\ Valid(call'.given))
                   => ~call'.raised
       /\ call'.op = "matchtrade" =>
            (call'.given.type = "LIMIT" => (call'.raised /\ book' = book))]_vars

\* add_limit has just refused a LIMIT without price_tick on a book that
\* holds orders
WrongTypeRejectedWitness ==
    /\ call.op = "add_limit"
    /\ call.raised
    /\ call.given.type = "LIMIT"
    /\ call.given.price_tick = NoTick
    /\ DOMAIN book.order_index # {}

\* ------------------------------------------------- Order.__post_init__
\* the integers an Order is constructed from run over -MaxField..MaxField
MaxField == 1

Fields == (0 - MaxField)..MaxField

\* Optional[int]: None is the empty tuple, the integer p the tuple <<p>>
Optional(S) == {<<>>} \cup {<<p>> : p \in S}

\* mutant: a quantity of 0 is let through
post_init_zero_quantity(id, timestamp, quantity, type, price_tick, validate) ==
    IF ~validate THEN FALSE
    ELSE IF id < 0 THEN TRUE
    ELSE IF timestamp < 0 THEN TRUE
    ELSE IF quantity < 0 THEN TRUE
    ELSE IF type = "LIMIT" THEN price_tick = <<>> \/ price_tick[1] <= 0
    ELSE price_tick # <<>>

\* Order.__post_init__: TRUE when it raises ValueError. The fields are
\* integers and members of Side and OrderType here, so the isinstance tests
\* pass.
post_init(id, timestamp, quantity, type, price_tick, validate) ==
    IF ~validate THEN FALSE
    ELSE IF id < 0 THEN TRUE
    ELSE IF timestamp < 0 THEN TRUE
    ELSE IF quantity <= 0 THEN TRUE
    ELSE IF type = "LIMIT" THEN price_tick = <<>> \/ price_tick[1] <= 0
    ELSE price_tick # <<>>

\* the fields of an Order as its constructor is given them
OrderFields(id, side, type, quantity, price_tick, timestamp, validate) ==
    [id |-> id, side |-> side, type |-> type, quantity |-> quantity,
     price_tick |-> price_tick, timestamp |-> timestamp, validate |-> validate]

\* Order(...): the dataclass stores the fields, then runs __post_init__;
\* when it raises there is no object
Constructed(given, raised) ==
    /\ call' = Call("Order", given, IF raised THEN <<>> ELSE given, <<>>, <<>>,
                    raised)
    /\ UNCHANGED <<book, next_id, t, msgs, live, stream, gen>>

Construct ==
    \E id \in Fields, side \in Sides, type \in {"LIMIT", "MARKET"},
       quantity \in Fields, price_tick \in Optional(Fields),
       timestamp \in Fields, validate \in BOOLEAN :
        Constructed(OrderFields(id, side, type, quantity, price_tick, timestamp,
                                validate),
                    post_init(id, timestamp, quantity, type, price_tick, validate))

NextConstruct == Construct

SpecConstruct == Init /\ [][NextConstruct]_vars

MaxPrice == 60

\* TICK_SIZE = 0.01, in thousandths
TickSize == 10

\* round(price / tick_size) for a price of n thousandths, n > 0: the nearest
\* integer; when the quotient is half-way between two integers the float
\* division lands on either side of the half (0.235 / 0.01 is
\* 23.499999999999996, 1.245 / 0.01 is 124.50000000000001), so both
\* neighbours are possible
Round(n) ==
    IF 2 * (n % TickSize) < TickSize THEN {n \div TickSize}
    ELSE IF 2 * (n % TickSize) > TickSize THEN {(n \div TickSize) + 1}
    ELSE {n \div TickSize, (n \div TickSize) + 1}

\* price_to_tick(price) -> the results [ret, raised] it may give
price_to_tick(n) ==
    IF n <= 0 THEN {[ret |-> <<>>, raised |-> TRUE]}
    ELSE {[ret |-> tick, raised |-> FALSE] : tick \in Round(n)}

PriceToTick ==
    \E n \in (0 - MaxPrice)..MaxPrice :
        \E r \in price_to_tick(n) :
            /\ call' = Call("price_to_tick", n, <<>>, <<>>, r.ret, r.raised)
            /\ UNCHANGED <<book, next_id, t, msgs, live, stream, gen>>

NextPrice == PriceToTick

SpecPrice == Init /\ [][NextPrice]_vars

\* C28: price_to_tick(p) raises when p <= 0 and, for every p > 0, returns a
\* positive integer tick.
PriceToTickPositive ==
    call.op = "price_to_tick" =>
        IF call.given <= 0 THEN call.raised
        ELSE ~call.raised /\ call.ret > 0

\* ------------------------------------------------------ depth snapshots
\* tick_to_price(tick) = tick * tick_size, in thousandths
tick_to_price(tick) == tick * TickSize

\* sorted(xs), ascending
RECURSIVE Sorted(_)
Sorted(xs) ==
    IF xs = <<>> THEN <<>> ELSE InsertSorted(Sorted(Tail(xs)), Head(xs))

Reversed(xs) == [i \in 1..Len(xs) |-> xs[Len(xs) + 1 - i]]

\* sorted(d.keys()) of a dict, ascending
RECURSIVE SortedKeys(_)
SortedKeys(S) ==
    IF S = {} THEN <<>>
    ELSE <<MinOf(S)>> \o SortedKeys(S \ {MinOf(S)})

\* xs[:n]
Take(xs, n) == SubSeq(xs, 1, Min2(n, Len(xs)))

\* _get_orderbook_snapshot, lines 39-45 and 49-55: the loop over the sorted
\* ticks of a heap; a tick is listed, as [price, size], when its level exists
\* and is not empty
RECURSIVE SnapshotLevels(_, _, _)
SnapshotLevels(b, side, sorted_ticks) ==
    IF sorted_ticks = <<>> THEN <<>>
    ELSE (IF DictGet(LevelsOf(b, side), Head(sorted_ticks), <<>>) # <<>>
          THEN <<[tick |-> Head(sorted_ticks),
                  price |-> tick_to_price(Head(sorted_ticks)),
                  size |-> DictGet(SizesOf(b, side), Head(sorted_ticks), 0)]>>
          ELSE <<>>)
         \o SnapshotLevels(b, side, Tail(sorted_ticks))

\* _get_orderbook_snapshot(book, seq, timestamp), max_levels = None: the bid
\* heap holds -tick, and is sorted in descending tick order; the ask heap is
\* sorted ascending. The entries keep the tick next to the price.
get_orderbook_snapshot(b) ==
    [bids |-> SnapshotLevels(b, "BID",
                             Reversed(Sorted([i \in 1..Len(b.bid_heap) |->
                                                 0 - b.bid_heap[i]]))),
     asks |-> SnapshotLevels(b, "ASK", Sorted(b.ask_heap))]

\* depth_levels: int = 10
DepthLevels == 10

\* _depth_snapshot, lines 22-26: the tick and the summed quantity of each of
\* the levels kept
DepthOf(b, side, ticks) ==
    [i \in 1..Len(ticks) |->
        [tick |-> ticks[i], price |-> tick_to_price(ticks[i]),
         size |-> SumQty(LevelsOf(b, side)[ticks[i]])]]

\* _depth_snapshot(book, depth_levels): the items of the level maps sorted by
\* tick, bids descending and asks ascending, cut at depth_levels
depth_snapshot(b) ==
    [bids |-> DepthOf(b, "BID",
                      Take(Reversed(SortedKeys(DOMAIN b.bids)), DepthLevels)),
     asks |-> DepthOf(b, "ASK", Take(SortedKeys(DOMAIN b.asks), DepthLevels))]

\* a snapshot was built: neither function assigns to the book
Snapshot(op, ret) ==
    /\ call' = Call(op, <<>>, <<>>, <<>>, ret, FALSE)
    /\ UNCHANGED <<book, next_id, t, msgs, live, stream, gen>>

GetOrderbookSnapshot == Snapshot("_get_orderbook_snapshot", get_orderbook_snapshot(book))

DepthSnapshot == Snapshot("_depth_snapshot", depth_snapshot(book))

\* the book driven through its API, with snapshots taken in between
NextSnapshot ==
    \/ AddOrder
    \/ CancelAtPrice
    \/ CancelById
    \/ GetOrderbookSnapshot
    \/ DepthSnapshot

SpecSnapshot == Init /\ [][NextSnapshot]_vars

\* the entries of one side of a snapshot list every tick at which orders rest
\* once, with the summed quantity of the level, in strictly increasing
\* (sign = 1) or decreasing (sign = -1) tick order
ListsLevelsOnce(entries, side, sign) ==
    /\ {entries[i].tick : i \in 1..Len(entries)} = LiveTicks(book, side)
    /\ \A i \in 1..Len(entries) :
          /\ entries[i].tick \in DOMAIN LevelsOf(book, side)
          /\ entries[i].size = SumQty(LevelsOf(book, side)[entries[i].tick])
    /\ \A i \in 1..(Len(entries) - 1) :
          sign * entries[i].tick < sign * entries[i + 1].tick

\* C29: in every reachable state of the book, stale or repeated heap entries
\* included, a depth snapshot lists each non-empty level exactly once with
\* its aggregate size, the bids in strictly descending and the asks in
\* strictly ascending tick order.
SnapshotListsLevelsOnce ==
    call.op \in {"_get_orderbook_snapshot", "_depth_snapshot"} =>
        /\ ListsLevelsOnce(call.ret.bids, "BID", 0 - 1)
        /\ ListsLevelsOnce(call.ret.asks, "ASK", 1)

\* the orders resting in b, each with its side, tick, place in the FIFO of
\* its level and quantity
RestingOrders(b) ==
    UNION {UNION {{[id |-> LevelsOf(b, side)[p][i].id, side |-> side,
                    price_tick |-> p, pos |-> i,
                    quantity |-> LevelsOf(b, side)[p][i].quantity] :
                       i \in 1..Len(LevelsOf(b, side)[p])} :
                  p \in DOMAIN LevelsOf(b, side)} :
           side \in Sides}

\* the ids ahead of the resting order x in the FIFO of its level
AheadOf(b, x) ==
    {y.id : y \in {z \in RestingOrders(b) :
                      /\ z.side = x.side
                      /\ z.price_tick = x.price_tick
                      /\ z.pos < x.pos}}

\* the quantity the trades take from the maker id
RECURSIVE TradedFrom(_, _)
TradedFrom(trades, id) ==
    IF trades = <<>> THEN 0
    ELSE (IF Head(trades).maker_id = id THEN Head(trades).quantity ELSE 0)
         + TradedFrom(Tail(trades), id)

\* the step took the resting order x off the book: a cancel removed it, or
\* the trades of the call filled all of its quantity
TakenOff(x, c) ==
    \/ c.op = "cancel_by_id" /\ c.given = x.id /\ c.ret = TRUE
    \/ c.op = "cancel_at_price" /\ c.ret # <<>> /\ c.ret[1].id = x.id
    \/ c.op = "add_order" /\ TradedFrom(c.trades, x.id) = x.quantity

\* C30: from one state to the next an order that rests keeps its side and
\* its price_tick, no order gets ahead of it in the FIFO of its level, and
\* its quantity does not increase; it is gone from the book exactly when the
\* step is a cancel that removed it or fills that took all of its quantity;
\* an id that was submitted and rests no more does not rest again.
RestingOrderOnlyShrinks ==
    [][/\ \A x \in RestingOrders(book) :
             IF \E y \in RestingOrders(book') : y.id = x.id
             THEN /\ \A y \in RestingOrders(book') :
                        y.id = x.id =>
                            /\ y.side = x.side
                            /\ y.price_tick = x.price_tick
                            /\ y.quantity <= x.quantity
                            /\ y.quantity > 0
                            /\ AheadOf(book', y) \subseteq AheadOf(book, x)
                  /\ ~TakenOff(x, call')
             ELSE TakenOff(x, call')
       /\ \A id \in 1..(next_id - 1) :
             (\A x \in RestingOrders(book) : x.id # id)
                 => (\A y \in RestingOrders(book') : y.id # id)]_vars

\* the last add_order left its last maker on the book, partly filled, with
\* another order behind it at the level
RestingOrderOnlyShrinksWitness ==
    /\ call.op = "add_order"
    /\ call.trades # <<>>
    /\ \E x, y \in RestingOrders(book) :
          /\ x.id = call.trades[Len(call.trades)].maker_id
          /\ y.id \in 1..MaxOrders
          /\ x.id \in AheadOf(book, y)

\* --------------------------------------------------- stream_fake_market
\* Prices are counted in thousandths, probabilities and the relative moves
\* of the mid in thousandths too.  A real-valued variate is cut down to the
\* few values the operators below give it.
\*
\* random.Random(seed): a generator whose state is set by the seed and
\* stepped by every draw; here a linear congruential one, modulo RngMod
RngMod == 1000

\* the seeds tried are 0..NumSeeds-1
NumSeeds == 24

\* the iterations of the inner loop each run is followed for
MaxGenSteps == 4

Lcg(x) == (21 * x + 7) % RngMod

\* one draw: the state steps, and the new state is the value drawn (rnd() is
\* f.rng / RngMod)
Draw(f) == [f EXCEPT !.rng = Lcg(@)]

\* rng.gauss(0, sigma), cut to -3 sigma .. 3 sigma
Gauss(u, sigma) == (((u * 7) \div RngMod) - 3) * sigma

\* rng.choice(xs)
Choice(xs, u) == xs[((u * Len(xs)) \div RngMod) + 1]

\* round(n / d) to the nearest integer, a tie to the even one; the float
\* quotient is taken as exact
HalfEven(n, d) ==
    IF 2 * (n % d) < d THEN n \div d
    ELSE IF 2 * (n % d) > d THEN (n \div d) + 1
    ELSE IF (n \div d) % 2 = 0 THEN n \div d
    ELSE (n \div d) + 1

\* lines 55-80: the regimes
Regimes ==
    [calm |-> [sigma |-> 3, jump_prob |-> 1, jump_sigma |-> 20,
               spread_mult |-> 800, market_ratio |-> 100, imbalance |-> 20],
     normal |-> [sigma |-> 10, jump_prob |-> 3, jump_sigma |-> 50,
                 spread_mult |-> 1000, market_ratio |-> 200, imbalance |-> 0],
     stress |-> [sigma |-> 30, jump_prob |-> 10, jump_sigma |-> 120,
                 spread_mult |-> 1800, market_ratio |-> 350,
                 imbalance |-> 0 - 50]]

\* the configurations tried: the defaults of stream_fake_market, with a
\* narrower spread and a shorter inner loop next to them
Configs ==
    {[start_price |-> 10000, spread |-> spread, market_ratio |-> 200,
      regime_switch_prob |-> 10, cancel_ratio |-> 300,
      orders_per_tick |-> orders_per_tick, replenish |-> TRUE] :
        spread \in {50, 500}, orders_per_tick \in {1, 10}}

\* lines 44-86: the locals of the generator before its first iteration;
\* bid_keys and ask_keys keep the key order of book.bids and book.asks,
\* `out` is what it has yielded
FreshRun(cfg, seed) ==
    [book |-> EmptyBook, rng |-> seed % RngMod, next_id |-> 1, t |-> 0,
     mid_price |-> cfg.start_price, momentum |-> 0, regime |-> "normal",
     bid_keys |-> <<>>, ask_keys |-> <<>>,
     bid_keys_cache |-> <<>>, ask_keys_cache |-> <<>>,
     last_bid_levels |-> 0 - 1, last_ask_levels |-> 0 - 1,
     i |-> 0, steps |-> 0, out |-> <<>>,
     shock |-> 0, jump |-> 0, side |-> "BID", is_market |-> FALSE, qty |-> 0,
     offset |-> 0, price |-> 0, price_tick |-> 0]

\* the keys of a dict after an operation, in dict order: the keys that are
\* left keep their order, a new key comes last
KeysAfter(keys, levels) ==
    SelectSeq(keys, LAMBDA k : k \in DOMAIN levels)
        \o SortedKeys(DOMAIN levels \ {keys[j] : j \in 1..Len(keys)})

WithBook(f, b) ==
    [f EXCEPT !.book = b,
              !.bid_keys = KeysAfter(@, b.bids),
              !.ask_keys = KeysAfter(@, b.asks)]

\* lines 89-90: rng.choice(list(regimes.keys())) on a second draw
RegimePart(cfg, f) ==
    IF f.rng < cfg.regime_switch_prob
    THEN [f EXCEPT !.rng = Lcg(@),
                   !.regime = Choice(<<"calm", "normal", "stress">>, Lcg(f.rng))]
    ELSE f

\* lines 101-102
ShockPart(f) ==
    [f EXCEPT !.shock = Gauss(f.rng, Regimes[f.regime].sigma),
              !.momentum = ((95 * @) \div 100)
                             + Gauss(f.rng, Regimes[f.regime].sigma)]

\* lines 103-105: the jump is drawn on a second draw
JumpPart(f) ==
    IF f.rng < Regimes[f.regime].jump_prob
    THEN [f EXCEPT !.rng = Lcg(@),
                   !.jump = Gauss(Lcg(f.rng), Regimes[f.regime].jump_sigma)]
    ELSE [f EXCEPT !.jump = 0]

\* lines 107-108
MidMove(f) ==
    [f EXCEPT !.mid_price =
        Max2(10, (@ * Max2(10, 1000 + f.shock + f.jump)) \div 1000)]

\* lines 88-108: the head of the outer loop, run before the first iteration
\* of the inner loop
PreludePart(cfg, f) ==
    IF f.i # 0 THEN f
    ELSE MidMove(JumpPart(Draw(ShockPart(Draw(RegimePart(cfg, Draw(f)))))))

\* lines 111-113: side_bias, kept within 0.05 .. 0.95, and the side
SidePart(f) ==
    [f EXCEPT !.side =
        IF f.rng < Min2(Max2(500 + Regimes[f.regime].imbalance
                                 + (IF f.momentum > 0 THEN 80 ELSE 0 - 80),
                             50), 950)
        THEN "BID" ELSE "ASK"]

\* lines 115-118
MarketPart(cfg, f) ==
    [f EXCEPT !.is_market =
        f.rng < Max2(10, Min2(900, (cfg.market_ratio
                                      * Regimes[f.regime].market_ratio) \div 200))]

\* line 121: rng.lognormvariate(2.2, 0.8), cut to 0..19
QtyPart(f) ==
    [f EXCEPT !.qty = Max2(1, Min2(500, (f.rng * f.rng) \div (RngMod * 50)))]

\* lines 128-130 and 138-140: the cache of keys is renewed when the number of
\* levels is not the one last seen
RefreshCache(f, side) ==
    IF side = "BID"
    THEN IF Len(f.bid_keys) # f.last_bid_levels
         THEN [f EXCEPT !.bid_keys_cache = f.bid_keys,
                        !.last_bid_levels = Len(f.bid_keys)]
         ELSE f
    ELSE IF Len(f.ask_keys) # f.last_ask_levels
         THEN [f EXCEPT !.ask_keys_cache = f.ask_keys,
                        !.last_ask_levels = Len(f.ask_keys)]
         ELSE f

\* lines 133-135 and 143-145
\* a cancel that took an order off yields
\* CancelEvent(side, price_tick, order_id)
GenCancelled(f, side, price_tick, r) ==
    IF r.ret = <<>> THEN WithBook(f, r.book)
    ELSE [WithBook(f, r.book) EXCEPT
             !.out = Append(@, [event |-> "CancelEvent", side |-> side,
                                price_tick |-> price_tick,
                                order_id |-> r.ret[1].id])]

\* lines 131-132 and 141-142: rng.choice over the cached keys, then
\* cancel_at_price at the tick chosen
CancelOn(f, side, cache) ==
    IF cache = <<>> THEN f
    ELSE GenCancelled(Draw(f), side, Choice(cache, Lcg(f.rng)),
                      cancel_at_price(f.book, side, Choice(cache, Lcg(f.rng))))

\* lines 124-127 and 136-137: a cancel is tried with probability
\* cancel_ratio, on a side drawn evenly
CancelPart(cfg, f) ==
    IF f.rng >= cfg.cancel_ratio THEN f
    ELSE IF Lcg(f.rng) < 500
         THEN CancelOn(RefreshCache(Draw(f), "BID"), "BID",
                       RefreshCache(Draw(f), "BID").bid_keys_cache)
         ELSE CancelOn(RefreshCache(Draw(f), "ASK"), "ASK",
                       RefreshCache(Draw(f), "ASK").ask_keys_cache)

\* line 158
DynamicSpread(cfg, f) == (cfg.spread * Regimes[f.regime].spread_mult) \div 1000

\* lines 160-161: rng.expovariate(1 / mean), cut to 0 .. 2 * mean
OffsetPart(cfg, f) ==
    [f EXCEPT !.offset =
        (DynamicSpread(cfg, f) \div 2)
          + (f.rng * 2 * Max2(10, (DynamicSpread(cfg, f) * 35) \div 100))
              \div RngMod]

\* lines 162-163: offset *= rng.uniform(0.2, 0.6), on a second draw
ShrinkPart(f) ==
    IF f.rng < 600
    THEN [f EXCEPT !.rng = Lcg(@),
                   !.offset = (@ * (200 + (Lcg(f.rng) * 400) \div RngMod))
                                \div 1000]
    ELSE f

\* line 165
PricePart(f) ==
    [f EXCEPT !.price = IF f.side = "BID" THEN f.mid_price - f.offset
                        ELSE f.mid_price + f.offset]

\* lines 168-170: round(price * 20) / 20 with probability one half, then
\* price_to_tick(max(0.01, price))
TickPart(f) ==
    IF f.rng < 500
    THEN [f EXCEPT !.price = HalfEven(@, 50) * 50,
                   !.price_tick = HalfEven(Max2(10, HalfEven(f.price, 50) * 50),
                                           TickSize)]
    ELSE [f EXCEPT !.price_tick = HalfEven(Max2(10, f.price), TickSize)]

\* lines 197-198, 209-210 and 215-216: an order goes through add_order and
\* is yielded with its trades: (order, trades), the Order object after
\* add_order, with the timestamp it was built with
GenSubmitted(f, r) ==
    [WithBook(f, r.book) EXCEPT
        !.out = Append(@, [event |-> "Order", order |-> r.order,
                           timestamp |-> f.t, trades |-> r.trades])]

GenSubmit(f, order) == GenSubmitted(f, add_order(f.book, order))

\* line 185
MidTick(f) == HalfEven(f.mid_price, TickSize)

\* line 186
MaxGapTicks(cfg, f) == Max2(1, HalfEven(DynamicSpread(cfg, f) * 25, 10 * TickSize))

\* lines 193 and 205
GenHalfSpread(cfg, f) == Max2(1, HalfEven(DynamicSpread(cfg, f), 2 * TickSize))

\* lines 187-198
ReplBidPart(cfg, f, best) ==
    IF best # <<>> /\ Dist(MidTick(f), best[1]) > MaxGapTicks(cfg, f)
    THEN GenSubmit(f, Order(f.next_id + ReplBidOffset, "BID", "LIMIT",
                            Max2(1, f.qty \div 2),
                            Max2(1, MidTick(f) - GenHalfSpread(cfg, f))))
    ELSE f

\* lines 199-210
ReplAskPart(cfg, f, best) ==
    IF best # <<>> /\ Dist(best[1], MidTick(f)) > MaxGapTicks(cfg, f)
    THEN GenSubmit(f, Order(f.next_id + ReplAskOffset, "ASK", "LIMIT",
                            Max2(1, f.qty \div 2),
                            MidTick(f) + GenHalfSpread(cfg, f)))
    ELSE f

\* lines 183-184: best_bid() and best_ask() are both read before either
\* replenishing order is placed
ReplAfterBestBid(cfg, f, r1) ==
    ReplAskPart(cfg,
                ReplBidPart(cfg, WithBook(f, best_ask(r1.book).book), r1.ret),
                best_ask(r1.book).ret)

ReplPart(cfg, f) ==
    IF cfg.replenish THEN ReplAfterBestBid(cfg, f, best_bid(f.book)) ELSE f

\* lines 157-210: the LIMIT branch
LimitPart(cfg, f) ==
    IF f.is_market THEN f
    ELSE ReplPart(cfg,
           TickPart(Draw(PricePart(ShrinkPart(Draw(
             OffsetPart(cfg, Draw(f))))))))

\* lines 147-156, 171-179 and 212-216: the order of the iteration;
\* add_order sees the order built before, next_id and t are already advanced
\* but the order holds the old ones; the inner loop counter moves on
SubmitMain(cfg, f) ==
    [GenSubmit(f, IF f.is_market
                  THEN Order(f.next_id, f.side, "MARKET", f.qty, NoTick)
                  ELSE Order(f.next_id, f.side, "LIMIT", f.qty, f.price_tick))
     EXCEPT
        !.next_id = @ + 1, !.t = @ + 1,
        !.i = (@ + 1) % Max2(1, cfg.orders_per_tick),
        !.steps = @ + 1]

\* one iteration of the inner loop, with the head of the outer loop when it
\* is the first of its tick
Iteration(cfg, f) ==
    SubmitMain(cfg,
      LimitPart(cfg,
        CancelPart(cfg,
          Draw(QtyPart(Draw(MarketPart(cfg, Draw(SidePart(Draw(
            PreludePart(cfg, f)))))))))))

\* two runs of the generator, on fresh books, with the same seed and the
\* same configuration
InitStream ==
    /\ book = EmptyBook
    /\ next_id = 1
    /\ call = Call("init", <<>>, <<>>, <<>>, <<>>, FALSE)
    /\ t = 0
    /\ msgs = <<>>
    /\ live = [a \in Agents |-> {}]
    /\ stream = <<>>
    /\ \E cfg \in Configs, seed \in 0..(NumSeeds - 1) :
          gen = [cfg |-> cfg, seed |-> seed,
                 runs |-> [r \in 1..2 |-> FreshRun(cfg, seed)]]

\* mutant: the draws come from one generator shared by the two runs (the
\* module-level functions of random), so a run goes on from where the other
\* left the generator
GenStepSharedRng ==
    \E r \in 1..2 :
        /\ gen.runs[r].steps < MaxGenSteps
        /\ gen' = [gen EXCEPT
                     !.runs[r] = Iteration(gen.cfg, @),
                     !.runs[3 - r].rng = Iteration(gen.cfg, gen.runs[r]).rng]
        /\ UNCHANGED <<book, next_id, call, t, msgs, live, stream>>

\* next(gen) on one of the two runs, up to the yield of the iteration's order
GenStep ==
    \E r \in 1..2 :
        /\ gen.runs[r].steps < MaxGenSteps
        /\ gen' = [gen EXCEPT !.runs[r] = Iteration(gen.cfg, @)]
        /\ UNCHANGED <<book, next_id, call, t, msgs, live, stream>>

NextStream == GenStep

SpecStream == InitStream /\ [][NextStream]_vars

RECURSIVE SizeSumUpTo(_, _, _)
SizeSumUpTo(b, side, p) ==
    IF p = 0 THEN 0 ELSE SizeAt(b, side, p) + SizeSumUpTo(b, side, p - 1)

SizeSum(b, side) == SizeSumUpTo(b, side, MaxTick)

\* C31: volume is conserved by every add_order: the sum of the returned
\* trade quantities is the decrease of the total quantity resting on the
\* opposite side, and the decrease of the sum of that side's size map; no
\* other resting quantity changes: an order of the opposite side that no
\* trade names rests as before, every order of the aggressor's side rests as
\* before, and the only order added there is the aggressor's residual.
VolumeStep(b, given, trades, b2) ==
    /\ SumTrades(trades)
          = TotalQty(b, Opposite(given.side)) - TotalQty(b2, Opposite(given.side))
    /\ SumTrades(trades)
          = SizeSum(b, Opposite(given.side)) - SizeSum(b2, Opposite(given.side))
    /\ \A x \in RestingOrders(b) :
          (x.side = given.side \/ TradedFrom(trades, x.id) = 0)
              => \E y \in RestingOrders(b2) :
                    /\ y.id = x.id
                    /\ y.side = x.side
                    /\ y.price_tick = x.price_tick
                    /\ y.quantity = x.quantity
    /\ \A y \in RestingOrders(b2) :
          y.side = given.side
              => \/ \E x \in RestingOrders(b) : x.id = y.id /\ x.side = y.side
                 \/ /\ y.id = given.id
                    /\ given.type = "LIMIT"
                    /\ y.quantity = given.quantity - SumTrades(trades)
    /\ \A y \in RestingOrders(b2) :
          y.side = Opposite(given.side)
              => \E x \in RestingOrders(b) :
                    /\ x.id = y.id
                    /\ x.side = y.side
                    /\ y.quantity = x.quantity - TradedFrom(trades, x.id)

VolumeConserved ==
    [][call'.op = "add_order"
          => VolumeStep(book, call'.given, call'.trades, book')]_vars

\* an add_order filled a part of a maker, which still rests, while another
\* order that was resting before the call rests untouched
VolumeConservedWitness ==
    /\ call.op = "add_order"
    /\ call.trades # <<>>
    /\ call.trades[Len(call.trades)].maker_id \in DOMAIN book.order_index
    /\ \E y \in RestingOrders(book) :
          /\ y.id # call.given.id
          /\ TradedFrom(call.trades, y.id) = 0

\* C32: an agent only ever cancels its own orders: every order that
\* try_cancel_owned or purge_stale_orders takes off the book is announced by
\* a Cancel, was in the live_orders of exactly one agent before the call,
\* and after the call its id is neither in the book's order_index nor in any
\* agent's live_orders; the calls emit nothing but these Cancels.
OwnCancelStep(b, lv, ms, b2, lv2) ==
    /\ \A i \in 1..Len(ms) :
          /\ ms[i].msg_type = "CANCEL"
          /\ RestsSomewhere(b, ms[i].order_id)
          /\ ~RestsSomewhere(b2, ms[i].order_id)
          /\ ms[i].order_id \notin DOMAIN b2.order_index
          /\ Cardinality({a \in Agents : ms[i].order_id \in lv[a]}) = 1
          /\ \A a \in Agents : ms[i].order_id \notin lv2[a]
    /\ \A x \in RestingOrders(b) :
          (\A y \in RestingOrders(b2) : y.id # x.id)
              => \E i \in 1..Len(ms) : ms[i].order_id = x.id
    /\ \A a \in Agents : lv2[a] \subseteq lv[a]

OwnCancelsOnly ==
    [][call'.op \in {"try_cancel_owned", "purge_stale_orders"}
          => OwnCancelStep(book, live, msgs', book', live')]_vars

\* one purge cancelled two orders while an agent still owns an order that
\* rests
OwnCancelsOnlyWitness ==
    /\ call.op = "purge_stale_orders"
    /\ Len(msgs) = 2
    /\ \E a \in Agents : \E id \in live[a] : RestsSomewhere(book, id)

\* ------------------------------------------- pick_cancel, pull_stale_orders
\* BaseAgent.pick_cancel(book, mid_tick, rng) on the agent's live_orders: the
\* outcomes [live_orders, ret], ret <<>> for None.  Every scored id has a
\* weight of at least 1.0, so rng.choices may return any of them whatever
\* mid_tick is
pick_cancel(live_orders, b) ==
    IF PruneDead(live_orders, b) \cap DOMAIN b.order_index = {}
    THEN {[live_orders |-> PruneDead(live_orders, b), ret |-> <<>>]}
    ELSE {[live_orders |-> PruneDead(live_orders, b), ret |-> <<oid>>] :
             oid \in PruneDead(live_orders, b) \cap DOMAIN b.order_index}

\* BaseAgent.pull_stale_orders(book, mid_tick, max_distance_ticks, rng): the
\* outcomes [live_orders, ret], ret the list to_cancel
pull_stale_orders(live_orders, b, mid_tick, max_distance_ticks) ==
    {[live_orders |-> PruneDead(live_orders, b), ret |-> to_cancel] :
        to_cancel \in PullLists(live_orders, b, mid_tick, max_distance_ticks)}

\* a method of an agent returned r; `given` holds the agent and the
\* live_orders it had at the call
AgentReturned(op, given, r) ==
    /\ live' = [live EXCEPT ![given[1]] = r.live_orders]
    /\ call' = Call(op, given, <<>>, <<>>, r.ret, FALSE)
    /\ UNCHANGED <<book, next_id, t, msgs, stream, gen>>

PickCancel ==
    /\ call.op # "init"
    /\ \E agent \in Agents : \E r \in pick_cancel(live[agent], book) :
          AgentReturned("pick_cancel", <<agent, live[agent]>>, r)

PullStaleOrders ==
    /\ call.op # "init"
    /\ \E agent \in Agents, mid_tick \in Ticks, max_distance_ticks \in Ticks :
          \E r \in pull_stale_orders(live[agent], book, mid_tick,
                                     max_distance_ticks) :
              AgentReturned("pull_stale_orders",
                            <<agent, live[agent], mid_tick, max_distance_ticks>>,
                            r)

\* a seeded book, orders submitted for the agents (some fill orders that
\* other agents own), and the two selections called at any time
NextAgents ==
    \/ SeedBook
    \/ SessionSubmit
    \/ PickCancel
    \/ PullStaleOrders

SpecAgents == Init /\ [][NextAgents]_vars

\* C33: pick_cancel and pull_stale_orders leave in the agent's live_orders
\* exactly the ids it held that still rest in the book; pick_cancel returns
\* None or an id the agent held that rests in the book, and pull_stale_orders
\* returns only ids the agent held that rest at a tick more than
\* max_distance_ticks away from mid_tick.
SelectionsOwnedAndResting ==
    /\ call.op \in {"pick_cancel", "pull_stale_orders"}
          => live[call.given[1]]
                = {id \in call.given[2] : RestsSomewhere(book, id)}
    /\ (call.op = "pick_cancel" /\ call.ret # <<>>)
          => /\ call.ret[1] \in call.given[2]
             /\ RestsSomewhere(book, call.ret[1])
    /\ call.op = "pull_stale_orders"
          => \A i \in 1..Len(call.ret) :
                /\ call.ret[i] \in call.given[2]
                /\ \E side \in Sides : \E p \in DOMAIN LevelsOf(book, side) :
                      /\ RestsAt(book, call.ret[i], side, p)
                      /\ Dist(p, call.given[3]) > call.given[4]

\* pull_stale_orders dropped an id that had left the book and returned one
\* that rests far from the mid
SelectionsOwnedAndRestingWitness ==
    /\ call.op = "pull_stale_orders"
    /\ call.ret # <<>>
    /\ live[call.given[1]] # call.given[2]

\* C34: an agent is given a submitted id only if the id is in order_index
\* after the submission: every id that a step adds to an agent's live_orders
\* is indexed, and rests, when the step is over, or it is a replenishing id
\* that rested and was then traded against by the order the driver submitted
\* right after replenish_book; the id of a MARKET order or of a LIMIT order
\* that was filled in full is added to no agent's live_orders.
OwnershipOnlyIfIndexed ==
    [][/\ \A a \in Agents : \A id \in live'[a] \ live[a] :
             \/ /\ id \in DOMAIN book'.order_index
                /\ RestsSomewhere(book', id)
             \/ /\ call'.op = "replenish_book"
                /\ id # call'.given.id
                /\ TradedFrom(call'.trades, id) > 0
       /\ (/\ call'.op \in {"emit_order", "replenish_book"}
           /\ \/ call'.given.type = "MARKET"
              \/ SumTrades(call'.trades) = call'.given.quantity)
             => \A a \in Agents : call'.given.id \notin live'[a]]_vars

\* replenish_book placed an order that rests and that an agent now owns, and
\* the LIMIT order submitted after it was filled in full and is owned by none
OwnershipOnlyIfIndexedWitness ==
    /\ call.op = "replenish_book"
    /\ \E a \in Agents : \E id \in live[a] :
          id > ReplBidOffset /\ RestsSomewhere(book, id)
    /\ SumTrades(call.trades) = call.given.quantity
    /\ \A a \in Agents : call.given.id \notin live[a]

\* C35: seed_book on an empty book builds SeedLevels bid levels and as many
\* ask levels, the i-th at mid_tick - half_spread_ticks - i and at
\* mid_tick + half_spread_ticks + i, each with SeedOrdersPerLevel orders of a
\* quantity in 1..200; the book is not crossed, every seeded order is
\* indexed, and next_id has advanced by the number of orders placed.
SeedBuildsLevels ==
    call.op = "seed_book" =>
        /\ DOMAIN book.bids
              = {call.given[1] - call.given[2] - i : i \in 0..(SeedLevels - 1)}
        /\ DOMAIN book.asks
              = {call.given[1] + call.given[2] + i : i \in 0..(SeedLevels - 1)}
        /\ \A side \in Sides : \A p \in DOMAIN LevelsOf(book, side) :
              /\ Len(LevelsOf(book, side)[p]) = SeedOrdersPerLevel
              /\ \A i \in 1..Len(LevelsOf(book, side)[p]) :
                    LevelsOf(book, side)[p][i].quantity \in 1..200
        /\ BestTick(book, "BID") < BestTick(book, "ASK")
        /\ DOMAIN book.order_index = 1..(2 * SeedLevels * SeedOrdersPerLevel)
        /\ \A x \in RestingOrders(book) :
              book.order_index[x.id] = <<x.side, x.price_tick>>
        /\ next_id = 1 + 2 * SeedLevels * SeedOrdersPerLevel

\* ---------------------------------------------------- trades of one call
\* the trades before the i-th
Earlier(trades, i) == SubSeq(trades, 1, i - 1)

\* the i-th trade of a call that found the book b: it is against an order x
\* resting on the opposite side, at x's tick, for the smaller of what the
\* aggressor still had to fill and what x still held
TradeAtMaker(b, given, trades, i) ==
    \E x \in RestingOrders(b) :
        /\ x.id = trades[i].maker_id
        /\ x.side = Opposite(given.side)
        /\ trades[i].price_tick = x.price_tick
        /\ trades[i].quantity > 0
        /\ trades[i].quantity =
              Min2(given.quantity - SumTrades(Earlier(trades, i)),
                   x.quantity - TradedFrom(Earlier(trades, i), x.id))

\* after the call every maker holds what it held less what was traded from
\* it, and is gone when that is nothing
MakersReduced(b, given, trades, b2) ==
    \A x \in RestingOrders(b) :
        x.side = Opposite(given.side) =>
            IF TradedFrom(trades, x.id) = x.quantity
            THEN \A y \in RestingOrders(b2) : y.id # x.id
            ELSE \E y \in RestingOrders(b2) :
                    /\ y.id = x.id
                    /\ y.quantity = x.quantity - TradedFrom(trades, x.id)

\* after the call the aggressor has what it came with less what was traded:
\* that much of a LIMIT rests, and nothing of it when that is nothing
AggressorReduced(given, trades, b2) ==
    /\ SumTrades(trades) <= given.quantity
    /\ \A y \in RestingOrders(b2) :
          y.id = given.id => y.quantity = given.quantity - SumTrades(trades)
    /\ (given.type = "LIMIT" /\ SumTrades(trades) < given.quantity)
          => \E y \in RestingOrders(b2) : y.id = given.id

\* C36: every trade of an add_order is at the tick of the level the maker
\* rests at, whatever the aggressor's limit tick, for a positive quantity that
\* is the smaller of the aggressor's remaining quantity and the maker's
\* quantity at that moment; the maker and the aggressor are both reduced by
\* exactly the traded quantity.
TradesAtMakerTick ==
    [][(call'.op = "add_order" /\ ~call'.raised)
          => /\ \A i \in 1..Len(call'.trades) :
                   TradeAtMaker(book, call'.given, call'.trades, i)
             /\ MakersReduced(book, call'.given, call'.trades, book')
             /\ AggressorReduced(call'.given, call'.trades, book')]_vars

\* a LIMIT traded at a tick that is not its own limit, exhausted a first
\* maker and took part of a second, and its last trade was cut by what the
\* aggressor had left
TradesAtMakerTickWitness ==
    /\ call.op = "add_order"
    /\ call.given.type = "LIMIT"
    /\ Len(call.trades) = 2
    /\ call.trades[1].price_tick # call.given.price_tick
    /\ call.trades[2].maker_id \in DOMAIN book.order_index
    /\ SumTrades(call.trades) = call.given.quantity

\* ------------------------------------------- a consumer of the L3 stream
\* what a consumer holds is a dict id -> [side, price_tick, quantity]; one
\* message applied to it: Add inserts, Execute subtracts from the maker and
\* drops it at 0, Cancel drops
Applied(held, m) ==
    IF m.msg_type = "ADD"
    THEN DictSet(held, m.order_id, [side |-> m.side, price_tick |-> m.price_tick,
                                    quantity |-> m.quantity])
    ELSE IF m.msg_type = "CANCEL" THEN DictPop(held, m.order_id)
    ELSE IF m.maker_id \notin DOMAIN held THEN held
    ELSE IF held[m.maker_id].quantity - m.quantity <= 0
    THEN DictPop(held, m.maker_id)
    ELSE [held EXCEPT ![m.maker_id].quantity = @ - m.quantity]

RECURSIVE Replayed(_, _)
Replayed(held, ms) ==
    IF ms = <<>> THEN held ELSE Replayed(Applied(held, Head(ms)), Tail(ms))

\* the orders a consumer holds, and the orders resting in b, as records
HeldOrders(held) ==
    {[id |-> id, side |-> held[id].side, price_tick |-> held[id].price_tick,
      quantity |-> held[id].quantity] : id \in DOMAIN held}

EngineOrders(b) ==
    {[id |-> x.id, side |-> x.side, price_tick |-> x.price_tick,
      quantity |-> x.quantity] : x \in RestingOrders(b)}

\* C37: after the messages of each step of a session, a consumer that
\* started from an empty book and applied the whole stream holds exactly the
\* orders resting in the engine: same ids, sides, ticks and quantities.
ConsumerHoldsBook ==
    call.op # "init" => HeldOrders(Replayed(EmptyDict, stream)) = EngineOrders(book)

\* ------------------------------------------- the index covers the book
\* cancel_by_id returned r for a resting id: true, and the id rests no more
CancelRemoves(r, id) == r.ret = TRUE /\ ~RestsSomewhere(r.book, id)

\* C38: with unique submitted ids, every order resting in a FIFO has an
\* order_index entry equal to its (side, price_tick), there are as many
\* index entries as resting orders, no id rests twice, and cancel_by_id
\* removes any resting order it is asked to.
IndexCoversResting ==
    /\ \A x \in RestingOrders(book) :
          /\ x.id \in DOMAIN book.order_index
          /\ book.order_index[x.id] = <<x.side, x.price_tick>>
          /\ CancelRemoves(cancel_by_id(book, x.id), x.id)
    /\ Cardinality(DOMAIN book.order_index) = Cardinality(RestingOrders(book))
    /\ \A x, y \in RestingOrders(book) : x.id = y.id => x = y

\* two orders rest in one FIFO after a trade reduced the one at its head,
\* which is still indexed
IndexCoversRestingWitness ==
    /\ call.op = "add_order"
    /\ call.trades # <<>>
    /\ call.trades[Len(call.trades)].maker_id \in DOMAIN book.order_index
    /\ Cardinality(RestingOrders(book)) = 2
    /\ \E x \in RestingOrders(book) : x.pos = 2

\* ------------------------------------------------------ what is left alone
\* the heap h2 is the heap h with one more entry x
OneMoreEntry(h, h2, x) ==
    \E i \in 1..Len(h2) :
        /\ h2[i] = x
        /\ h = SubSeq(h2, 1, i - 1) \o SubSeq(h2, i + 1, Len(h2))

\* the side `side` of b2 is that of b: levels, sizes and heap
SameSide(b, b2, side) ==
    /\ LevelsOf(b2, side) = LevelsOf(b, side)
    /\ SizesOf(b2, side) = SizesOf(b, side)
    /\ HeapOf(b2, side) = HeapOf(b, side)

\* the index entries of the orders that rested on `side` in b are in b2 as
\* they were
SameIndexOn(b, b2, side) ==
    \A id \in DOMAIN b.order_index :
        b.order_index[id][1] = side
            => /\ id \in DOMAIN b2.order_index
               /\ b2.order_index[id] = b.order_index[id]

\* the own side after the order `rest` was appended at the tick p
OwnSideAppended(b, b2, side, p, rest) ==
    /\ LevelsOf(b2, side) = DictSet(LevelsOf(b, side), p,
                                    Append(QueueAt(b, side, p), rest))
    /\ SizesOf(b2, side) = DictSet(SizesOf(b, side), p,
                                   (IF p \in DOMAIN LevelsOf(b, side)
                                    THEN SizeAt(b, side, p) ELSE 0) + rest.quantity)
    /\ IF p \in DOMAIN LevelsOf(b, side)
       THEN HeapOf(b2, side) = HeapOf(b, side)
       ELSE OneMoreEntry(HeapOf(b, side), HeapOf(b2, side), SignOf(side) * p)

\* add_order on its own side: a LIMIT with a residual appends it at the tail
\* of the FIFO at its tick; anything else leaves the side as it was
OwnSideStep(b, given, trades, b2) ==
    /\ SameIndexOn(b, b2, given.side)
    /\ IF given.type = "LIMIT" /\ SumTrades(trades) < given.quantity
       THEN OwnSideAppended(b, b2, given.side, given.price_tick,
                            [given EXCEPT !.quantity = @ - SumTrades(trades)])
       ELSE SameSide(b, b2, given.side)

\* a cancel that took the order id off the level (side, p): the other side,
\* the heaps, the other levels and sizes of the side and the other index
\* entries are as before
CancelFrame(b, side, p, id, b2) ==
    /\ SameSide(b, b2, Opposite(side))
    /\ HeapOf(b2, side) = HeapOf(b, side)
    /\ DictPop(LevelsOf(b2, side), p) = DictPop(LevelsOf(b, side), p)
    /\ DictPop(SizesOf(b2, side), p) = DictPop(SizesOf(b, side), p)
    /\ b2.order_index = DictPop(b.order_index, id)

\* C39: add_order leaves the aggressor's own side as it was, but for the
\* residual of a LIMIT appended at the tail of the FIFO at its own tick (a
\* MARKET never changes its own side); cancel_at_price and cancel_by_id
\* change only the FIFO, the size and the index entry of the level they act
\* on: the opposite side and every other level are as before.
OnlyTheLevelActedOn ==
    [][/\ (call'.op = "add_order" /\ ~call'.raised)
             => OwnSideStep(book, call'.given, call'.trades, book')
       /\ (call'.op = "cancel_at_price" /\ call'.ret # <<>>)
             => CancelFrame(book, call'.given[1], call'.given[2],
                            call'.ret[1].id, book')
       /\ (call'.op = "cancel_by_id" /\ call'.ret = TRUE)
             => CancelFrame(book, book.order_index[call'.given][1],
                            book.order_index[call'.given][2], call'.given, book')
       /\ (\/ call'.op = "cancel_at_price" /\ call'.ret = <<>>
           \/ call'.op = "cancel_by_id" /\ call'.ret = FALSE)
             => book' = book]_vars

\* a LIMIT traded and rested its residual at a new level of its side, where
\* an older order rests at another level
OnlyTheLevelActedOnWitness ==
    /\ call.op = "add_order"
    /\ call.given.type = "LIMIT"
    /\ call.trades # <<>>
    /\ RestsAt(book, call.given.id, call.given.side, call.given.price_tick)
    /\ \E x \in RestingOrders(book) :
          /\ x.side = call.given.side
          /\ x.price_tick # call.given.price_tick
====
